---- MODULE Spec2Model ----
(***************************************************************************)
(* Multi-provider LLM completion protocol layer of openfang:               *)
(*   - FallbackDriver (drivers/fallback.rs): chain-of-responsibility       *)
(*     over an ordered list of drivers;                                    *)
(*   - CodexDriver (drivers/codex.rs): Responses-style SSE adapter;        *)
(*   - GeminiDriver (drivers/gemini.rs): REST generateContent adapter;     *)
(*   - the default LlmDriver::stream (llm_driver.rs).                      *)
(*                                                                         *)
(* Two specifications share the module:                                  *)
(*   SpecFallback  one FallbackDriver.complete/stream call over a chain    *)
(*                 of drivers, each driver summarised by what its backend  *)
(*                 answers;                                                *)
(*   Spec          one complete/stream call on a single adapter, with the  *)
(*                 wire events of the backend drawn nondeterministically.  *)
(* Strings are modelled as sequences of tokens (concatenation is \o);      *)
(* JSON argument payloads of tool calls are not tracked, no property       *)
(* below reads them.                                                       *)
(***************************************************************************)
EXTENDS Integers, Sequences, FiniteSets, TLC

\* ------------------------------------------------------------------ bounds
\* Longest driver chain of a FallbackDriver.
MaxDrivers == 3
\* Most named SSE events one Codex response stream carries.
MaxWire == 4
\* Most SSE chunks one Gemini response stream carries.
MaxChunks == 3

\* ------------------------------------------------------- canonical model

\* LlmError (llm_driver.rs): one record shape for every variant.
ErrHttp == [kind |-> "Http", status |-> 0, retry_after_ms |-> 0]
ErrApi(s) == [kind |-> "Api", status |-> s, retry_after_ms |-> 0]
ErrRateLimited(ms) == [kind |-> "RateLimited", status |-> 0, retry_after_ms |-> ms]
ErrOverloaded(ms) == [kind |-> "Overloaded", status |-> 0, retry_after_ms |-> ms]
ErrParse == [kind |-> "Parse", status |-> 0, retry_after_ms |-> 0]
ErrMissingApiKey == [kind |-> "MissingApiKey", status |-> 0, retry_after_ms |-> 0]

\* CompletionResponse (llm_driver.rs).  content is the ordered block list,
\* text blocks carry a token sequence, tool blocks an id and a name.
TextBlock(t) == [type |-> "Text", text |-> t, id |-> "", name |-> ""]
ToolUseBlock(id, name) == [type |-> "ToolUse", text |-> <<>>, id |-> id, name |-> name]
ToolCall(id, name) == [id |-> id, name |-> name]
Response(content, stop_reason, tool_calls, usage) ==
    [content |-> content, stop_reason |-> stop_reason,
     tool_calls |-> tool_calls, usage |-> usage]

\* Result<CompletionResponse, LlmError>.
Ok(resp) == [ok |-> TRUE, resp |-> resp, err |-> ErrHttp]
EmptyResponse == Response(<<>>, "EndTurn", <<>>, 0)
Err(e) == [ok |-> FALSE, resp |-> EmptyResponse, err |-> e]
\* Placeholder of a call that has not returned (read only once pc says so).
NoResult == Err([kind |-> "None", status |-> 0, retry_after_ms |-> 0])

\* StreamEvent (llm_driver.rs): one record shape; usage is read only in a
\* ContentComplete.
TextDelta(t) == [ev |-> "TextDelta", text |-> t, id |-> "", name |-> "", stop_reason |-> "",
    usage |-> 0]
ToolUseStart(id, name) == [ev |-> "ToolUseStart", text |-> <<>>, id |-> id, name |-> name, stop_reason |-> "",
    usage |-> 0]
ToolInputDelta == [ev |-> "ToolInputDelta", text |-> <<>>, id |-> "", name |-> "", stop_reason |-> "",
    usage |-> 0]
ToolUseEnd(id, name) == [ev |-> "ToolUseEnd", text |-> <<>>, id |-> id, name |-> name, stop_reason |-> "",
    usage |-> 0]
ContentComplete(sr, usage) ==
    [ev |-> "ContentComplete", text |-> <<>>, id |-> "", name |-> "", stop_reason |-> sr,
     usage |-> usage]

RECURSIVE ConcatText(_)
\* CompletionResponse::text: the Text blocks joined, other blocks skipped.
ConcatText(content) ==
    IF content = <<>> THEN <<>>
    ELSE (IF Head(content).type = "Text" THEN Head(content).text ELSE <<>>)
         \o ConcatText(Tail(content))

ResponseText(resp) == ConcatText(resp.content)

\* Faulty variant of DefaultStreamEvents: the text is sent even when empty.
DefaultStreamEventsAlwaysText(res) ==
    IF ~res.ok THEN <<>>
    ELSE <<TextDelta(ResponseText(res.resp)),
           ContentComplete(res.resp.stop_reason, res.resp.usage)>>
\* LlmDriver::stream default body: the events it sends for a result of
\* complete (nothing on Err: the `?` returns before any send).
DefaultStreamEvents(res) ==
    IF ~res.ok THEN <<>>
    ELSE (IF ResponseText(res.resp) # <<>>
          THEN <<TextDelta(ResponseText(res.resp))>> ELSE <<>>)
         \o <<ContentComplete(res.resp.stop_reason, res.resp.usage)>>


\* ------------------------------------------------------------ CodexDriver

\* Marks a JSON field that is missing (or not a string) in a wire item.
Absent == "<absent>"

\* item.call_id, else item.id, else "" (codex.rs 610-615, 700-705, 425-430).
EffectiveCallId(item) ==
    IF item.call_id # Absent THEN item.call_id
    ELSE IF item.id # Absent THEN item.id ELSE ""

\* item.id as a string, "" when missing (codex.rs 605-609).
ItemId(item) == IF item.id = Absent THEN "" ELSE item.id

EmptyMap == [x \in {} |-> ToolCall("", "")]
\* HashMap::insert.
MapInsert(m, k, v) == [x \in DOMAIN m \cup {k} |-> IF x = k THEN v ELSE m[x]]

\* Locals of run_completion at the start of the SSE loop (codex.rs 544-555).
\* tool_meta maps an item id to (call_id, name), kept as a ToolCall record;
\* tool_args is kept as the set of item ids that have an entry.
CodexInitState ==
    [text_accum |-> <<>>,
     tool_meta |-> EmptyMap,
     tool_args |-> {},
     started_item_ids |-> {},
     ended_call_ids |-> {},
     fallback_tool_calls |-> <<>>,
     fallback_usage |-> 0,
     has_completed |-> FALSE,
     completed_response |-> [status |-> "", output |-> <<>>, usage |-> 0]]

\* What one dispatched SSE event does: the new locals and the events handed
\* to maybe_send, in order.
Outcome(st, ev) == [st |-> st, ev |-> ev]

\* "response.output_text.delta" (codex.rs 583-596).
CodexOnTextDelta(st, e) ==
    IF e.delta # <<>>
    THEN Outcome([st EXCEPT !.text_accum = @ \o e.delta], <<TextDelta(e.delta)>>)
    ELSE Outcome(st, <<>>)

\* "response.output_item.added" (codex.rs 597-636): ToolUseStart is gated
\* by the item id.
CodexOnItemAdded(st, e) ==
    IF e.item_type = "function_call" /\ ItemId(e) # ""
    THEN Outcome(
           [st EXCEPT !.tool_meta = MapInsert(@, ItemId(e), ToolCall(EffectiveCallId(e), e.name)),
                      !.started_item_ids = @ \cup {ItemId(e)}],
           IF ItemId(e) \notin st.started_item_ids
           THEN <<ToolUseStart(EffectiveCallId(e), e.name)>> ELSE <<>>)
    ELSE Outcome(st, <<>>)

\* "response.function_call_arguments.delta" (codex.rs 637-661); the event
\* carries item_id in the id field.
CodexOnArgsDelta(st, e) ==
    Outcome(IF ItemId(e) # "" THEN [st EXCEPT !.tool_args = @ \cup {ItemId(e)}] ELSE st,
            IF e.delta # <<>> THEN <<ToolInputDelta>> ELSE <<>>)

\* "response.function_call_arguments.done" (codex.rs 662-691): ToolUseEnd
\* for the call id recorded for the item, gated by the call id.
CodexOnArgsDone(st, e) ==
    IF ItemId(e) # ""
    THEN LET st1 == [st EXCEPT !.tool_args = @ \cup {ItemId(e)}]
         IN IF ItemId(e) \in DOMAIN st.tool_meta
            THEN LET meta == st.tool_meta[ItemId(e)]
                 IN IF meta.id \notin st.ended_call_ids
                    THEN Outcome([st1 EXCEPT !.ended_call_ids = @ \cup {meta.id}],
                                 <<ToolUseEnd(meta.id, meta.name)>>)
                    ELSE Outcome(st1, <<>>)
            ELSE Outcome(st1, <<>>)
    ELSE Outcome(st, <<>>)

\* "response.output_item.done" (codex.rs 692-737): always pushes the
\* fallback record, ToolUseEnd gated by the call id.
CodexOnItemDone(st, e) ==
    IF e.item_type = "function_call" /\ EffectiveCallId(e) # "" /\ e.name # ""
    THEN LET st1 == [st EXCEPT !.fallback_tool_calls =
                                  Append(@, ToolCall(EffectiveCallId(e), e.name))]
         IN IF EffectiveCallId(e) \notin st.ended_call_ids
            THEN Outcome([st1 EXCEPT !.ended_call_ids = @ \cup {EffectiveCallId(e)}],
                         <<ToolUseEnd(EffectiveCallId(e), e.name)>>)
            ELSE Outcome(st1, <<>>)
    ELSE Outcome(st, <<>>)

\* "response.completed" (codex.rs 738-743).
CodexOnCompleted(st, e) ==
    Outcome([st EXCEPT !.fallback_usage = e.response.usage,
                       !.has_completed = TRUE,
                       !.completed_response = e.response], <<>>)

\* The match on the event name (codex.rs 582-745).
CodexDispatch(st, e) ==
    CASE e.type = "response.output_text.delta" -> CodexOnTextDelta(st, e)
      [] e.type = "response.output_item.added" -> CodexOnItemAdded(st, e)
      [] e.type = "response.function_call_arguments.delta" -> CodexOnArgsDelta(st, e)
      [] e.type = "response.function_call_arguments.done" -> CodexOnArgsDone(st, e)
      [] e.type = "response.output_item.done" -> CodexOnItemDone(st, e)
      [] e.type = "response.completed" -> CodexOnCompleted(st, e)
      [] OTHER -> Outcome(st, <<>>)


RECURSIVE OutputText(_)
\* The text of the "message" items of response.output (codex.rs 398-423).
OutputText(items) ==
    IF items = <<>> THEN <<>>
    ELSE (IF Head(items).item_type = "message" THEN Head(items).delta ELSE <<>>)
         \o OutputText(Tail(items))

IsUsableCall(item) ==
    item.item_type = "function_call" /\ EffectiveCallId(item) # "" /\ item.name # ""
CallOfItem(item) == ToolCall(EffectiveCallId(item), item.name)
BlockOfCall(call) == ToolUseBlock(call.id, call.name)
\* The ToolUse blocks pushed for a list of calls, in order.
BlocksOfCalls(calls) == [k \in 1..Len(calls) |-> BlockOfCall(calls[k])]

\* The function_call items of response.output with a call id and a name
\* (codex.rs 424-455).
OutputCalls(items) ==
    LET usable == SelectSeq(items, IsUsableCall)
    IN [k \in 1..Len(usable) |-> CallOfItem(usable[k])]

\* build_completion_from_response (codex.rs 373-490).
CodexBuildCompletion(has_response, response, fallback_text, fallback_tool_calls, fallback_usage) ==
    LET usage == IF has_response THEN response.usage ELSE fallback_usage
        stop0 == IF has_response /\ response.status = "incomplete"
                 THEN "MaxTokens" ELSE "EndTurn"
        text0 == IF has_response THEN OutputText(response.output) ELSE <<>>
        calls0 == IF has_response THEN OutputCalls(response.output) ELSE <<>>
        text == IF text0 = <<>> THEN fallback_text ELSE text0
        content0 == (IF text # <<>> THEN <<TextBlock(text)>> ELSE <<>>)
                    \o BlocksOfCalls(calls0)
        use_fallback == calls0 = <<>> /\ fallback_tool_calls # <<>>
        content == IF use_fallback
                   THEN content0 \o BlocksOfCalls(fallback_tool_calls)
                   ELSE content0
        tool_calls == IF use_fallback THEN fallback_tool_calls ELSE calls0
        stop_reason == IF tool_calls # <<>> THEN "ToolUse" ELSE stop0
    IN Response(content, stop_reason, tool_calls, usage)

\* The orders in which a HashMap's keys may be visited.
KeyOrders(S) ==
    {f \in [1..Cardinality(S) -> S] : \A a, b \in 1..Cardinality(S) : f[a] = f[b] => a = b}

\* The tail of run_completion (codex.rs 766-795): the responses it may
\* build, one per iteration order of tool_meta in the second fallback tier.
CodexFinalResponses(st) ==
    LET response == CodexBuildCompletion(st.has_completed, st.completed_response,
                                         st.text_accum, st.fallback_tool_calls,
                                         st.fallback_usage)
    IN IF response.tool_calls = <<>> /\ DOMAIN st.tool_meta # {}
       THEN {LET calls == [k \in 1..Len(ord) |-> st.tool_meta[ord[k]]]
             IN Response(response.content \o BlocksOfCalls(calls),
                         "ToolUse", calls, response.usage)
             : ord \in KeyOrders(DOMAIN st.tool_meta)}
       ELSE {response}

\* The status check after send (codex.rs 535-542): TRUE when the body is
\* read, else the error returned.
IsSuccess(status) == status >= 200 /\ status <= 299
CodexStatusError(status) == ErrApi(status)


\* ----------------------------------------------------------- GeminiDriver

\* `let max_retries = 3` (gemini.rs 374, 454).
max_retries == 3

\* format!("call_{}", Uuid::new_v4().simple()): the n-th identifier drawn;
\* two draws never give the same one.
FreshId(n) == "call_" \o ToString(n)

\* Faulty variant of GeminiOnStatus: 429 and 503 are retried without a cap.
GeminiOnStatusNoCap(status, attempt) ==
    IF status = 429 \/ status = 503 THEN "retry"
    ELSE IF ~IsSuccess(status) THEN "fail" ELSE "read"
\* What the retry loop does with the status of one attempt
\* (gemini.rs 392-418, 472-501): "retry", "fail" (with GeminiStatusError)
\* or "read" the body.
GeminiOnStatus(status, attempt) ==
    IF status = 429 \/ status = 503
    THEN (IF attempt < max_retries THEN "retry" ELSE "fail")
    ELSE IF ~IsSuccess(status) THEN "fail" ELSE "read"

\* The statuses the retry loop retries (gemini.rs 394, 474).
Retryable(status) == status = 429 \/ status = 503
\* Faulty variant of GeminiStatusError: 503 is reported as rate limiting.
GeminiStatusErrorAllRateLimited(status) ==
    IF Retryable(status) THEN ErrRateLimited(5000) ELSE ErrApi(status)
\* The error a status that ends the call is turned into (gemini.rs 401-418,
\* 484-501).
GeminiStatusError(status) ==
    IF status = 429 THEN ErrRateLimited(5000)
    ELSE IF status = 503 THEN ErrOverloaded(5000)
    ELSE ErrApi(status)

\* Faulty variant of ConvertStopReason: the finish reason is looked at first, the
\* tool calls only when it is none of the known ones.
ConvertStopReasonFinishFirst(finish_reason, tool_calls) ==
    CASE finish_reason = "STOP" -> "EndTurn"
      [] finish_reason = "MAX_TOKENS" -> "MaxTokens"
      [] OTHER -> IF tool_calls # <<>> THEN "ToolUse" ELSE "EndTurn"

\* The stop reason of convert_response (gemini.rs 329-338).
ConvertStopReason(finish_reason, tool_calls) ==
    IF tool_calls # <<>> THEN "ToolUse"
    ELSE IF finish_reason = "MAX_TOKENS" THEN "MaxTokens" ELSE "EndTurn"

\* The stop reason of stream (gemini.rs 614-625).
StreamStopReason(finish_reason, tool_calls) ==
    CASE finish_reason = "STOP" -> "EndTurn"
      [] finish_reason = "MAX_TOKENS" -> "MaxTokens"
      [] finish_reason = "SAFETY" -> "EndTurn"
      [] OTHER -> IF tool_calls # <<>> THEN "ToolUse" ELSE "EndTurn"

IsFunctionCall(part) == part.kind = "functionCall"
IsNonEmptyText(part) == part.kind = "text" /\ part.text # <<>>
IsBlockPart(part) == IsFunctionCall(part) \/ IsNonEmptyText(part)

\* Number of functionCall parts among the first k parts.
CallsBefore(parts, k) == Cardinality({j \in 1..k : IsFunctionCall(parts[j])})

\* convert_response (gemini.rs 291-354) given that `uuid` identifiers were
\* drawn before: the result and the number drawn after.
convert_response(resp, uuid) ==
    IF resp.candidates = <<>>
    THEN [res |-> Err(ErrParse), uuid |-> uuid]
    ELSE LET candidate == resp.candidates[1]
             parts == IF candidate.has_content THEN candidate.parts ELSE <<>>
             idx == SelectSeq([k \in 1..Len(parts) |-> k],
                              LAMBDA k : IsBlockPart(parts[k]))
             IdOf(k) == FreshId(uuid + CallsBefore(parts, k))
             content == [n \in 1..Len(idx) |->
                           IF IsFunctionCall(parts[idx[n]])
                           THEN ToolUseBlock(IdOf(idx[n]), parts[idx[n]].name)
                           ELSE TextBlock(parts[idx[n]].text)]
             cidx == SelectSeq([k \in 1..Len(parts) |-> k],
                               LAMBDA k : IsFunctionCall(parts[k]))
             tool_calls == [n \in 1..Len(cidx) |->
                              ToolCall(IdOf(cidx[n]), parts[cidx[n]].name)]
             usage == IF resp.has_usage THEN resp.usage ELSE 0
         IN [res |-> Ok(Response(content,
                                 ConvertStopReason(candidate.finish_reason, tool_calls),
                                 tool_calls, usage)),
             uuid |-> uuid + Len(cidx)]

\* Locals of stream at the start of the SSE loop (gemini.rs 504-509), and
\* the count of identifiers drawn.
GeminiInitState(uuid) ==
    [text_content |-> <<>>, fn_calls |-> <<>>, finish_reason |-> Absent,
     usage |-> 0, uuid |-> uuid]

\* One part of a streamed candidate (gemini.rs 548-586); o is the Outcome
\* so far.
GeminiOnPart(o, part) ==
    IF IsNonEmptyText(part)
    THEN Outcome([o.st EXCEPT !.text_content = @ \o part.text],
                 o.ev \o <<TextDelta(part.text)>>)
    ELSE IF IsFunctionCall(part)
    THEN LET id == FreshId(o.st.uuid + 1)
         IN Outcome([o.st EXCEPT !.fn_calls = Append(@, part.name), !.uuid = @ + 1],
                    o.ev \o <<ToolUseStart(id, part.name), ToolInputDelta,
                              ToolUseEnd(id, part.name)>>)
    ELSE o

RECURSIVE GeminiOnParts(_, _)
GeminiOnParts(o, parts) ==
    IF parts = <<>> THEN o
    ELSE GeminiOnParts(GeminiOnPart(o, Head(parts)), Tail(parts))

RECURSIVE GeminiOnCandidates(_, _)
\* The loop over the candidates of one chunk (gemini.rs 542-588).
GeminiOnCandidates(o, cands) ==
    IF cands = <<>> THEN o
    ELSE LET c == Head(cands)
             st1 == IF c.finish_reason # Absent
                    THEN [o.st EXCEPT !.finish_reason = c.finish_reason] ELSE o.st
             o1 == Outcome(st1, o.ev)
         IN GeminiOnCandidates(
              IF c.has_content THEN GeminiOnParts(o1, c.parts) ELSE o1, Tail(cands))

\* One SSE event of the stream (gemini.rs 517-589): skipped when it has no
\* data line or does not parse.
GeminiOnChunk(st, chunk) ==
    IF ~chunk.parsed THEN Outcome(st, <<>>)
    ELSE LET st1 == IF chunk.resp.has_usage
                    THEN [st EXCEPT !.usage = chunk.resp.usage] ELSE st
         IN GeminiOnCandidates(Outcome(st1, <<>>), chunk.resp.candidates)

\* The response stream builds after the body closes (gemini.rs 592-636).
GeminiStreamResponse(st) ==
    LET tool_calls == [n \in 1..Len(st.fn_calls) |->
                          ToolCall(FreshId(st.uuid + n), st.fn_calls[n])]
        content == (IF st.text_content # <<>> THEN <<TextBlock(st.text_content)>> ELSE <<>>)
                   \o BlocksOfCalls(tool_calls)
    IN Response(content, StreamStopReason(st.finish_reason, tool_calls),
                tool_calls, st.usage)


\* ------------------------------------------- adapter calls, as functions

\* What a driver call hands back: its result and the events it sent.
Call(res, ev) == [res |-> res, ev |-> ev]

RECURSIVE CodexRun(_, _)
\* The SSE loop over a whole body (codex.rs 558-764).
CodexRun(o, wire) ==
    IF wire = <<>> THEN o
    ELSE LET n == CodexDispatch(o.st, Head(wire))
         IN CodexRun(Outcome(n.st, o.ev \o n.ev), Tail(wire))

\* Faulty variant of CodexCall: ContentComplete is sent before the transport
\* error is returned.
CodexCallCompletesOnError(status, wire, broken, has_tx) ==
    IF ~IsSuccess(status) THEN Call(Err(CodexStatusError(status)), <<>>)
    ELSE LET o == CodexRun(Outcome(CodexInitState, <<>>), wire)
             response == CHOOSE r \in CodexFinalResponses(o.st) : TRUE
             sent == IF has_tx
                     THEN o.ev \o <<ContentComplete(response.stop_reason, response.usage)>>
                     ELSE <<>>
         IN IF broken THEN Call(Err(ErrHttp), sent) ELSE Call(Ok(response), sent)

\* run_completion (codex.rs 492-807) against a backend that answers
\* `status` and then the events `wire`; `broken`: the body ends in a
\* transport error instead of closing.  has_tx is tx.is_some().
CodexCall(status, wire, broken, has_tx) ==
    IF ~IsSuccess(status) THEN Call(Err(CodexStatusError(status)), <<>>)
    ELSE LET o == CodexRun(Outcome(CodexInitState, <<>>), wire)
             response == CHOOSE r \in CodexFinalResponses(o.st) : TRUE
         IN IF broken
            THEN Call(Err(ErrHttp), IF has_tx THEN o.ev ELSE <<>>)
            ELSE Call(Ok(response),
                      IF has_tx THEN o.ev \o <<ContentComplete(response.stop_reason, response.usage)>>
                      ELSE <<>>)

RECURSIVE GeminiRetry(_, _)
\* The retry loop (gemini.rs 375-428, 455-637) from `attempt` on, against a
\* backend whose k-th attempt is answered answers[k + 1]: the error it
\* ends with, or the pseudo error kind "Read" when a body is read.
GeminiRetry(answers, attempt) ==
    IF attempt > max_retries THEN ErrApi(0)
    ELSE LET what == GeminiOnStatus(answers[attempt + 1], attempt)
         IN CASE what = "retry" -> GeminiRetry(answers, attempt + 1)
              [] what = "fail" -> GeminiStatusError(answers[attempt + 1])
              [] OTHER -> [kind |-> "Read", status |-> 0, retry_after_ms |-> 0]

RECURSIVE GeminiRun(_, _)
\* The SSE loop over a whole body (gemini.rs 512-590).
GeminiRun(o, chunks) ==
    IF chunks = <<>> THEN o
    ELSE LET n == GeminiOnChunk(o.st, Head(chunks))
         IN GeminiRun(Outcome(n.st, o.ev \o n.ev), Tail(chunks))

\* GeminiDriver::complete (gemini.rs 360-434); body is the parsed response.
GeminiComplete(answers, body) ==
    LET e == GeminiRetry(answers, 0)
    IN IF e.kind = "Read" THEN Call(convert_response(body, 0).res, <<>>)
       ELSE Call(Err(e), <<>>)

\* GeminiDriver::stream (gemini.rs 436-643); chunks is the SSE body.
GeminiStream(answers, chunks) ==
    LET e == GeminiRetry(answers, 0)
        o == GeminiRun(Outcome(GeminiInitState(0), <<>>), chunks)
        response == GeminiStreamResponse(o.st)
    IN IF e.kind = "Read"
       THEN Call(Ok(response), o.ev \o <<ContentComplete(response.stop_reason, response.usage)>>)
       ELSE Call(Err(e), <<>>)


\* ---------------------------------------------------------------- state

VARIABLES
    \* FallbackDriver call (fallback.rs)
    drivers,        \* self.drivers: the chain, one descriptor per driver
    request,        \* the CompletionRequest of the call
    fb_mode,        \* "complete" or "stream"
    driver_index,   \* position of the for loop, 1-based
    last_error,     \* Option<LlmError>: [some, err]
    invoked,        \* the driver calls made so far: [index, request, res]
    fb_tx,          \* events received by the sink of a stream call
    fb_result,      \* the value returned
    fb_pc,          \* "idle" (not this specification), "loop", "done"
    \* one call on an adapter (codex.rs, gemini.rs, llm_driver.rs)
    adapter,        \* "codex", "gemini", "default", or "none"
    mode,           \* "complete" or "stream"
    pc,             \* "idle", "start", "body", "done"
    attempt,        \* Gemini: index of the retry loop; count of POSTs so far
    answered,       \* Gemini: what each POST met, a status or SendFailed
    codex,          \* Codex: locals of run_completion
    gemini,         \* Gemini: locals of stream
    consumed,       \* wire events / chunks read from the body so far
    seen_parts,     \* Gemini: the parts processed so far, in order
    tx,             \* events sent to the sink
    result,         \* the value returned
    \* pending PKCE logins (codex_oauth.rs)
    PENDING_PKCE,   \* the process-wide map: state token -> PendingPkce
    now,            \* Utc::now(), in milliseconds
    ticks,          \* how often the clock has advanced
    issued,         \* how many state tokens random_state() has produced
    handlers,       \* the handler invocations, in order of arrival
    exchanges,      \* the exchange_code calls made: [handler, state, verifier]
    \* loopback callback listener (codex_oauth.rs)
    LOOPBACK_CALLBACK_TASK, \* the process-wide slot: Option<LoopbackCallbackServer>
    tasks,          \* the spawned listener tasks, by handle
    ensures,        \* the ensure_loopback_callback_listener calls, in order of arrival
    \* refresh of a credential (codex_oauth.rs)
    auth,           \* the StoredCodexAuth being refreshed
    auth_before,    \* the credential as it was before the last refresh request
    token,          \* the answer of the token endpoint to the last refresh request
    refreshes,      \* how many refresh requests were made
    \* conversion of a conversation (codex.rs, gemini.rs)
    messages,       \* request.messages
    input_items,    \* what Codex build_input_items returned
    contents,       \* what Gemini convert_messages returned
    \* runtime credential variables and the Codex adapter (codex_oauth.rs, codex.rs)
    env_access_token,  \* OPENAI_CODEX_ACCESS_TOKEN, Absent when unset
    env_account_id,    \* OPENAI_CODEX_ACCOUNT_ID, Absent when unset
    driver,            \* the CodexDriver instance: access_token, account_id
    auth_calls,        \* the calls made on the driver: what each resolved and sent
    \* the persisted credential and the handlers on it (codex_oauth.rs)
    auth_file,         \* <home>/auth/codex_oauth.json: Option<StoredCodexAuth>
    cli_auth,          \* what import_codex_cli_auth reads from ~/.codex/auth.json
    session,           \* the last handler invocation, if any: <<>> or <<inv>>
    \* a function applied to an input
    probe              \* the input drawn and the value the function returned

fbVars == <<drivers, request, fb_mode, driver_index, last_error, invoked,
            fb_tx, fb_result, fb_pc>>
adVars == <<adapter, mode, pc, attempt, answered, codex, gemini, consumed, seen_parts,
            tx, result>>
pkVars == <<PENDING_PKCE, now, ticks, issued, handlers, exchanges>>
lsVars == <<LOOPBACK_CALLBACK_TASK, tasks, ensures>>
rfVars == <<auth, auth_before, token, refreshes>>
cvVars == <<messages, input_items, contents>>
acVars == <<env_access_token, env_account_id, driver, auth_calls>>
ssVars == <<auth_file, cli_auth, session>>
pbVars == <<probe>>
vars == <<drivers, request, fb_mode, driver_index, last_error, invoked,
          fb_tx, fb_result, fb_pc,
          adapter, mode, pc, attempt, answered, codex, gemini, consumed,
          seen_parts, tx, result,
          PENDING_PKCE, now, ticks, issued, handlers, exchanges,
          LOOPBACK_CALLBACK_TASK, tasks, ensures,
          auth, auth_before, token, refreshes,
          messages, input_items, contents,
          env_access_token, env_account_id, driver, auth_calls,
          auth_file, cli_auth, session, probe>>

\* The state of the parts a specification does not exercise.
NoServer == [some |-> FALSE, bind_addr |-> 0, callback_path |-> "", handle |-> 0]
PkceIdle ==
    /\ PENDING_PKCE = <<>> /\ now = 0 /\ ticks = 0 /\ issued = 0
    /\ handlers = <<>> /\ exchanges = <<>>
ListenerIdle ==
    /\ LOOPBACK_CALLBACK_TASK = NoServer /\ tasks = <<>> /\ ensures = <<>>
RefreshIdle ==
    /\ auth = <<>> /\ auth_before = <<>> /\ token = <<>> /\ refreshes = 0
ConvertIdle ==
    /\ messages = <<>>
    /\ input_items = [built |-> FALSE, v |-> <<>>]
    /\ contents = [built |-> FALSE, v |-> <<>>]
AuthContextIdle ==
    /\ env_access_token = [some |-> FALSE, v |-> <<>>]
    /\ env_account_id = [some |-> FALSE, v |-> <<>>]
    /\ driver = <<>> /\ auth_calls = <<>>
SessionIdle ==
    /\ auth_file = [some |-> FALSE] /\ cli_auth = [some |-> FALSE]
    /\ session = <<>>
ProbeIdle == probe = <<>>
OAuthIdle ==
    /\ PkceIdle /\ ListenerIdle /\ RefreshIdle /\ ConvertIdle /\ AuthContextIdle
    /\ SessionIdle /\ ProbeIdle
oaVars == <<pkVars, lsVars, rfVars, cvVars, acVars, ssVars, pbVars>>

\* ------------------------------------------------------- FallbackDriver

\* Wire items and events: one record shape.
WireItem(item_type, id, call_id, name, delta) ==
    [item_type |-> item_type, id |-> id, call_id |-> call_id, name |-> name,
     delta |-> delta]
NoWireResponse == [status |-> "", output |-> <<>>, usage |-> 0]
WireEvent(type, item, response) ==
    [type |-> type, item_type |-> item.item_type, id |-> item.id,
     call_id |-> item.call_id, name |-> item.name, delta |-> item.delta,
     response |-> response]
NoItem == WireItem("", Absent, Absent, "", <<>>)

\* Gemini wire values.
TextPart(t) == [kind |-> "text", text |-> t, name |-> ""]
FunctionCallPart(n) == [kind |-> "functionCall", text |-> <<>>, name |-> n]
InlineDataPart == [kind |-> "inlineData", text |-> <<>>, name |-> ""]
Candidate(has_content, parts, finish_reason) ==
    [has_content |-> has_content, parts |-> parts, finish_reason |-> finish_reason]
GeminiResponse(candidates, has_usage, usage) ==
    [candidates |-> candidates, has_usage |-> has_usage, usage |-> usage]
Chunk(parsed, resp) == [parsed |-> parsed, resp |-> resp]

\* The responses of the stub drivers (fallback.rs 106-123, OkDriver, and a
\* second one to tell two drivers apart).
StubResponses ==
    {Response(<<TextBlock(<<"OK">>)>>, "EndTurn", <<>>, 1),
     Response(<<ToolUseBlock("t1", "f")>>, "ToolUse", <<ToolCall("t1", "f")>>, 2)}

\* The results a driver's complete can give (fallback.rs 94-123, 171-183).
StubOutcomes ==
    {Ok(r) : r \in StubResponses}
    \cup {Err(ErrApi(500)), Err(ErrHttp), Err(ErrMissingApiKey),
          Err(ErrRateLimited(5000)), Err(ErrOverloaded(5000))}

\* The body a summarised adapter reads when its backend answers 2xx: one
\* text delta and the completed response / one text chunk that stops.
SummaryWire ==
    <<WireEvent("response.output_text.delta", WireItem("", Absent, Absent, "", <<"a">>),
                NoWireResponse),
      WireEvent("response.completed", NoItem,
                [status |-> "completed",
                 output |-> <<WireItem("message", Absent, Absent, "", <<"a">>)>>,
                 usage |-> 1])>>
SummaryBody ==
    GeminiResponse(<<Candidate(TRUE, <<TextPart(<<"b">>)>>, "STOP")>>, TRUE, 1)

\* Backend status codes tried.
HttpStatuses == {200, 429, 500, 503}
\* send() returned Err: the POST met no status (gemini.rs 388-390, 468-470).
SendFailed == 0

\* The answers of a Gemini backend over the attempts of one call.
AnswerSeqs ==
    {[k \in 1..(max_retries + 1) |-> s] : s \in HttpStatuses}
    \cup {[k \in 1..(max_retries + 1) |-> IF k <= max_retries THEN 429 ELSE 503],
          [k \in 1..(max_retries + 1) |-> IF k = 1 THEN 503 ELSE 200],
          [k \in 1..(max_retries + 1) |-> IF k = 1 THEN 429 ELSE 500]}

\* Driver descriptors of a chain.
Driver(kind, outcome, answers, broken) ==
    [kind |-> kind, outcome |-> outcome, answers |-> answers, broken |-> broken]
NoAnswers == [k \in 1..(max_retries + 1) |-> 200]
ChainDrivers ==
    {Driver("stub", o, NoAnswers, FALSE) : o \in StubOutcomes}
    \cup {Driver("codex", NoResult, [k \in 1..(max_retries + 1) |-> s], FALSE)
            : s \in HttpStatuses}
    \cup {Driver("codex", NoResult, NoAnswers, TRUE)}
    \cup {Driver("gemini", NoResult, a, FALSE) : a \in AnswerSeqs}

\* driver.complete(request) / driver.stream(request, tx) of one driver of
\* the chain; a stub implements complete only and inherits the default
\* stream (llm_driver.rs 137-154).
DriverCall(d, req, m) ==
    CASE d.kind = "stub" ->
           Call(d.outcome, IF m = "stream" THEN DefaultStreamEvents(d.outcome) ELSE <<>>)
      [] d.kind = "codex" ->
           CodexCall(d.answers[1], SummaryWire, d.broken, m = "stream")
      [] OTHER ->
           IF m = "stream" THEN GeminiStream(d.answers, <<Chunk(TRUE, SummaryBody)>>)
           ELSE GeminiComplete(d.answers, SummaryBody)

\* request.clone() (fallback.rs 34, 65).
RequestClone(req) == req

\* Faulty variants of FallbackArm: an Ok result falls through to the next driver;
\* only RateLimited is bubbled; every error is returned at once; no error is
\* bubbled.
FallbackArmOkFallsThrough(res) ==
    IF res.ok THEN "next"
    ELSE IF res.err.kind \in {"RateLimited", "Overloaded"} THEN "bubble"
    ELSE "next"
FallbackArmOverloadedAbsorbed(res) ==
    IF res.ok THEN "return"
    ELSE IF res.err.kind \in {"RateLimited"} THEN "bubble"
    ELSE "next"
FallbackArmErrorsReturn(res) ==
    IF res.ok THEN "return" ELSE "bubble"
FallbackArmNothingBubbled(res) ==
    IF res.ok THEN "return" ELSE "next"

\* The arm of the match a driver's result takes (fallback.rs 35-47, 66-77).
FallbackArm(res) ==
    IF res.ok THEN "return"
    ELSE IF res.err.kind \in {"RateLimited", "Overloaded"} THEN "bubble"
    ELSE "next"

\* Faulty variant of RetainError: the first error is kept.
RetainFirstError(old, e) == IF old.some THEN old ELSE [some |-> TRUE, err |-> e]

\* last_error = Some(e) (fallback.rs 46, 76).
RetainError(old, e) == [some |-> TRUE, err |-> e]

\* The error after the loop (fallback.rs 51-54, 81-84).
ExhaustedError(le) == IF le.some THEN le.err ELSE ErrApi(0)

Chains == UNION {[1..n -> ChainDrivers] : n \in 0..MaxDrivers}
Requests == {"req1", "req2"}
NoError == [some |-> FALSE, err |-> ErrHttp]

AdapterIdle ==
    /\ adapter = "none" /\ mode = "complete" /\ pc = "idle" /\ attempt = 0
    /\ answered = <<>>
    /\ codex = CodexInitState /\ gemini = GeminiInitState(0)
    /\ consumed = 0 /\ seen_parts = <<>> /\ tx = <<>> /\ result = NoResult

\* No FallbackDriver call and no adapter call is in progress.
DriversIdle ==
    /\ drivers = <<>> /\ request = "req1" /\ fb_mode = "complete"
    /\ driver_index = 1 /\ last_error = NoError /\ invoked = <<>>
    /\ fb_tx = <<>> /\ fb_result = NoResult /\ fb_pc = "idle"
    /\ AdapterIdle

FallbackInit ==
    /\ drivers \in Chains
    /\ request \in Requests
    /\ fb_mode \in {"complete", "stream"}
    /\ driver_index = 1
    /\ last_error = NoError
    /\ invoked = <<>>
    /\ fb_tx = <<>>
    /\ fb_result = NoResult
    /\ fb_pc = "loop"
    /\ AdapterIdle
    /\ OAuthIdle

\* One iteration of the for loop (fallback.rs 33-49, 64-78).
FallbackTry ==
    /\ fb_pc = "loop"
    /\ driver_index <= Len(drivers)
    /\ LET req == RequestClone(request)
           call == DriverCall(drivers[driver_index], req, fb_mode)
           arm == FallbackArm(call.res)
       IN /\ invoked' = Append(invoked, [index |-> driver_index, request |-> req,
                                          res |-> call.res])
          /\ fb_tx' = fb_tx \o call.ev
          /\ IF arm = "next"
             THEN /\ last_error' = RetainError(last_error, call.res.err)
                  /\ driver_index' = driver_index + 1
                  /\ UNCHANGED <<fb_result, fb_pc>>
             ELSE /\ fb_result' = call.res
                  /\ fb_pc' = "done"
                  /\ UNCHANGED <<last_error, driver_index>>
    /\ UNCHANGED <<drivers, request, fb_mode>>
    /\ UNCHANGED <<adVars, oaVars>>

\* The return after the loop (fallback.rs 51-54, 81-84).
FallbackExhausted ==
    /\ fb_pc = "loop"
    /\ driver_index > Len(drivers)
    /\ fb_result' = Err(ExhaustedError(last_error))
    /\ fb_pc' = "done"
    /\ UNCHANGED <<drivers, request, fb_mode, driver_index, last_error, invoked, fb_tx>>
    /\ UNCHANGED <<adVars, oaVars>>

FallbackNext == FallbackTry \/ FallbackExhausted

SpecFallback == FallbackInit /\ [][FallbackNext]_vars
\* The loop is never suspended for ever: every driver call returns.
SpecFallbackFair == SpecFallback /\ WF_vars(FallbackNext)


\* ------------------------------------------------- one call on an adapter

FunctionCallItem(id, call_id, name) == WireItem("function_call", id, call_id, name, <<>>)
MessageItem(t) == WireItem("message", Absent, Absent, "", t)

\* The named SSE events a Codex backend may send.
CodexWireEvents ==
    {WireEvent("response.output_text.delta", WireItem("", Absent, Absent, "", d), NoWireResponse)
       : d \in {<<>>, <<"a">>}}
    \cup {WireEvent("response.output_item.added", FunctionCallItem(id, c, "f"), NoWireResponse)
            : id \in {"i1", "i2"}, c \in {Absent, "c1"}}
    \cup {WireEvent("response.output_item.added", MessageItem(<<>>), NoWireResponse),
          WireEvent("response.output_item.added", FunctionCallItem(Absent, "c1", "f"), NoWireResponse)}
    \cup {WireEvent("response.function_call_arguments.delta",
                    WireItem("", id, Absent, "", d), NoWireResponse)
            : id \in {Absent, "i1"}, d \in {<<>>, <<"x">>}}
    \cup {WireEvent("response.function_call_arguments.done",
                    WireItem("", id, Absent, "", <<>>), NoWireResponse)
            : id \in {Absent, "i1", "i2"}}
    \cup {WireEvent("response.output_item.done", FunctionCallItem(id, c, "f"), NoWireResponse)
            : id \in {Absent, "i1"}, c \in {Absent, "c1"}}
    \cup {WireEvent("response.output_item.done", FunctionCallItem("i1", "c1", ""), NoWireResponse),
          WireEvent("response.output_item.done", MessageItem(<<"a">>), NoWireResponse)}
    \cup {WireEvent("response.completed", NoItem, [status |-> st, output |-> out, usage |-> 1])
            : st \in {"completed", "incomplete"},
              out \in {<<>>, <<MessageItem(<<"b">>)>>,
                       <<MessageItem(<<"b">>), FunctionCallItem("i1", "c1", "f")>>}}
    \cup {WireEvent("response.created", NoItem, NoWireResponse)}

\* The candidates a Gemini backend may send.
GeminiPartLists ==
    {<<TextPart(<<"a">>)>>, <<FunctionCallPart("f")>>,
     <<TextPart(<<"a">>), FunctionCallPart("g")>>,
     <<InlineDataPart, TextPart(<<>>)>>}
FinishReasons == {Absent, "STOP", "MAX_TOKENS", "SAFETY", "OTHER"}
GeminiCandidates ==
    {Candidate(TRUE, ps, fr) : ps \in GeminiPartLists, fr \in FinishReasons}
    \cup {Candidate(FALSE, <<>>, fr) : fr \in FinishReasons}

\* The response objects a Gemini backend may send (a whole body, or the
\* data of one SSE event).
GeminiResponses ==
    {GeminiResponse(<<c>>, u, 1) : c \in GeminiCandidates, u \in {TRUE}}
    \cup {GeminiResponse(<<>>, FALSE, 0),
          GeminiResponse(<<Candidate(TRUE, <<TextPart(<<"a">>)>>, "STOP"),
                           Candidate(TRUE, <<FunctionCallPart("f")>>, Absent)>>, FALSE, 0)}
GeminiChunks ==
    {Chunk(TRUE, r) : r \in GeminiResponses}
    \cup {Chunk(FALSE, GeminiResponse(<<>>, FALSE, 0))}

RECURSIVE PartsOf(_)
\* The parts stream processes in a list of candidates, in order.
PartsOf(cands) ==
    IF cands = <<>> THEN <<>>
    ELSE (IF Head(cands).has_content THEN Head(cands).parts ELSE <<>>)
         \o PartsOf(Tail(cands))

Init ==
    /\ adapter \in {"codex", "gemini", "default"}
    /\ mode \in {"complete", "stream"}
    /\ adapter = "default" => mode = "stream"
    /\ pc = "start"
    /\ attempt = 0
    /\ answered = <<>>
    /\ codex = CodexInitState
    /\ gemini = GeminiInitState(0)
    /\ consumed = 0
    /\ seen_parts = <<>>
    /\ tx = <<>>
    /\ result = NoResult
    /\ drivers = <<>> /\ request = "req1" /\ fb_mode = "complete"
    /\ driver_index = 1 /\ last_error = NoError /\ invoked = <<>>
    /\ fb_tx = <<>> /\ fb_result = NoResult /\ fb_pc = "idle"
    /\ OAuthIdle

\* maybe_send (codex.rs 353-357): nothing is sent without a sink.
MaybeSend(ev) == IF mode = "stream" THEN tx \o ev ELSE tx

Return(res) ==
    /\ result' = res
    /\ pc' = "done"

\* resolve_auth_context fails (codex.rs 92-124, 497).
CodexAuthFails ==
    /\ adapter = "codex" /\ pc = "start"
    /\ \E e \in {ErrMissingApiKey, ErrApi(401)} : Return(Err(e))
    /\ UNCHANGED <<answered, adapter, mode, attempt, codex, gemini, consumed, seen_parts, tx>>
    /\ UNCHANGED <<fbVars, oaVars>>

\* send() fails (codex.rs 531-534).
CodexSendFails ==
    /\ adapter = "codex" /\ pc = "start"
    /\ Return(Err(ErrHttp))
    /\ UNCHANGED <<answered, adapter, mode, attempt, codex, gemini, consumed, seen_parts, tx>>
    /\ UNCHANGED <<fbVars, oaVars>>

\* The backend answers with a status (codex.rs 531-557).
CodexSend ==
    /\ adapter = "codex" /\ pc = "start"
    /\ \E status \in HttpStatuses :
         /\ attempt' = attempt + 1
         /\ IF IsSuccess(status)
            THEN pc' = "body" /\ UNCHANGED result
            ELSE Return(Err(CodexStatusError(status)))
    /\ UNCHANGED <<answered, adapter, mode, codex, gemini, consumed, seen_parts, tx>>
    /\ UNCHANGED <<fbVars, oaVars>>

\* One named SSE event is dispatched (codex.rs 569-747).
CodexEvent ==
    /\ adapter = "codex" /\ pc = "body"
    /\ consumed < MaxWire
    /\ \E e \in CodexWireEvents :
         LET o == CodexDispatch(codex, e)
         IN /\ codex' = o.st
            /\ tx' = MaybeSend(o.ev)
    /\ consumed' = consumed + 1
    /\ UNCHANGED <<answered, adapter, mode, pc, attempt, gemini, seen_parts, result>>
    /\ UNCHANGED <<fbVars, oaVars>>

\* A chunk of the body fails (codex.rs 559).
CodexChunkError ==
    /\ adapter = "codex" /\ pc = "body"
    /\ Return(Err(ErrHttp))
    /\ UNCHANGED <<answered, adapter, mode, attempt, codex, gemini, consumed, seen_parts, tx>>
    /\ UNCHANGED <<fbVars, oaVars>>

\* The body closes (codex.rs 766-806).
CodexFinish ==
    /\ adapter = "codex" /\ pc = "body"
    /\ \E response \in CodexFinalResponses(codex) :
         /\ tx' = MaybeSend(<<ContentComplete(response.stop_reason, response.usage)>>)
         /\ Return(Ok(response))
    /\ UNCHANGED <<answered, adapter, mode, attempt, codex, gemini, consumed, seen_parts>>
    /\ UNCHANGED <<fbVars, oaVars>>


\* send() fails on some attempt (gemini.rs 388-390, 468-470).
GeminiSendFails ==
    /\ adapter = "gemini" /\ pc = "start"
    /\ answered' = Append(answered, SendFailed)
    /\ Return(Err(ErrHttp))
    /\ UNCHANGED <<adapter, mode, attempt, codex, gemini, consumed, seen_parts, tx>>
    /\ UNCHANGED <<fbVars, oaVars>>

\* One pass of the retry loop up to the status checks (gemini.rs 375-418,
\* 455-501).  `attempt` is the loop index; the return after the loop
\* (gemini.rs 430-433, 639-642) is not reachable, the pass with
\* attempt = max_retries always returns.
GeminiAttempt ==
    /\ adapter = "gemini" /\ pc = "start"
    /\ attempt <= max_retries
    /\ \E status \in HttpStatuses :
         LET what == GeminiOnStatus(status, attempt)
         IN /\ answered' = Append(answered, status)
            /\ CASE what = "retry" ->
                   /\ attempt' = attempt + 1
                   /\ UNCHANGED <<pc, result>>
              [] what = "fail" ->
                   /\ Return(Err(GeminiStatusError(status)))
                   /\ UNCHANGED attempt
              [] OTHER ->
                   /\ pc' = "body"
                   /\ UNCHANGED <<attempt, result>>
    /\ UNCHANGED <<adapter, mode, codex, gemini, consumed, seen_parts, tx>>
    /\ UNCHANGED <<fbVars, oaVars>>

\* complete reads and converts the body (gemini.rs 420-427); a body that
\* cannot be read is Http, one that does not parse is Parse.
GeminiCompleteBody ==
    /\ adapter = "gemini" /\ pc = "body" /\ mode = "complete"
    /\ \/ /\ \E e \in {ErrHttp, ErrParse} : Return(Err(e))
          /\ UNCHANGED <<gemini, seen_parts>>
       \/ \E body \in GeminiResponses :
            LET c == convert_response(body, gemini.uuid)
            IN /\ Return(c.res)
               /\ gemini' = [gemini EXCEPT !.uuid = c.uuid,
                                           !.finish_reason =
                                              IF body.candidates = <<>> THEN @
                                              ELSE body.candidates[1].finish_reason]
               /\ seen_parts' = IF body.candidates = <<>> THEN <<>>
                                ELSE PartsOf(<<body.candidates[1]>>)
    /\ UNCHANGED <<answered, adapter, mode, attempt, codex, consumed, tx>>
    /\ UNCHANGED <<fbVars, oaVars>>

\* stream processes one SSE event of the body (gemini.rs 517-589).
GeminiChunk ==
    /\ adapter = "gemini" /\ pc = "body" /\ mode = "stream"
    /\ consumed < MaxChunks
    /\ \E chunk \in GeminiChunks :
         LET o == GeminiOnChunk(gemini, chunk)
         IN /\ gemini' = o.st
            /\ tx' = tx \o o.ev
            /\ seen_parts' = IF chunk.parsed
                             THEN seen_parts \o PartsOf(chunk.resp.candidates)
                             ELSE seen_parts
    /\ consumed' = consumed + 1
    /\ UNCHANGED <<answered, adapter, mode, pc, attempt, codex, result>>
    /\ UNCHANGED <<fbVars, oaVars>>

\* A chunk of the body fails (gemini.rs 513).
GeminiChunkError ==
    /\ adapter = "gemini" /\ pc = "body" /\ mode = "stream"
    /\ Return(Err(ErrHttp))
    /\ UNCHANGED <<answered, adapter, mode, attempt, codex, gemini, consumed, seen_parts, tx>>
    /\ UNCHANGED <<fbVars, oaVars>>

\* Faulty variant of GeminiFinish: the response is returned without the terminal
\* event.
GeminiFinishNoComplete ==
    /\ adapter = "gemini" /\ pc = "body" /\ mode = "stream"
    /\ LET response == GeminiStreamResponse(gemini)
       IN /\ Return(Ok(response))
          /\ gemini' = [gemini EXCEPT !.uuid = @ + Len(response.tool_calls)]
    /\ UNCHANGED <<answered, adapter, mode, attempt, codex, consumed, seen_parts, tx>>
    /\ UNCHANGED <<fbVars, oaVars>>

\* The body closes (gemini.rs 592-636).
GeminiFinish ==
    /\ adapter = "gemini" /\ pc = "body" /\ mode = "stream"
    /\ LET response == GeminiStreamResponse(gemini)
       IN /\ tx' = Append(tx, ContentComplete(response.stop_reason, response.usage))
          /\ Return(Ok(response))
          /\ gemini' = [gemini EXCEPT !.uuid = @ + Len(response.tool_calls)]
    /\ UNCHANGED <<answered, adapter, mode, attempt, codex, consumed, seen_parts>>
    /\ UNCHANGED <<fbVars, oaVars>>

\* The default LlmDriver::stream over a driver's complete
\* (llm_driver.rs 137-154).
DefaultStream ==
    /\ adapter = "default" /\ pc = "start"
    /\ \E res \in StubOutcomes :
         /\ answered' = Append(answered, res)
         /\ tx' = tx \o DefaultStreamEvents(res)
         /\ Return(res)
    /\ UNCHANGED <<adapter, mode, attempt, codex, gemini, consumed, seen_parts>>
    /\ UNCHANGED <<fbVars, oaVars>>

Next ==
    \/ CodexAuthFails \/ CodexSendFails \/ CodexSend \/ CodexEvent
    \/ CodexChunkError \/ CodexFinish
    \/ GeminiSendFails \/ GeminiAttempt \/ GeminiCompleteBody \/ GeminiChunk
    \/ GeminiChunkError \/ GeminiFinish
    \/ DefaultStream

Spec == Init /\ [][Next]_vars


\* ------------------------------------------------ FallbackDriver: claims

IsBubbled(res) == ~res.ok /\ res.err.kind \in {"RateLimited", "Overloaded"}
IsAbsorbed(res) == ~res.ok /\ res.err.kind \notin {"RateLimited", "Overloaded"}
\* What the k-th driver of the chain itself answers to this call.
OwnResult(k) == DriverCall(drivers[k], request, fb_mode).res

\* C1: in complete and in stream, when the first driver returns Ok the
\* call has returned that driver's response and no later driver of the
\* chain was invoked.
C1_FirstOkReturned ==
    (Len(invoked) >= 1 /\ invoked[1].res.ok)
    => /\ fb_pc = "done"
       /\ fb_result = invoked[1].res
       /\ fb_result = OwnResult(1)
       /\ Len(invoked) = 1
       /\ invoked[1].index = 1

C1_Witness ==
    /\ fb_pc = "done" /\ fb_mode = "stream"
    /\ Len(drivers) = 3 /\ Len(invoked) = 1 /\ fb_result.ok
    /\ ~OwnResult(2).ok

\* C2: a driver at any position reached that fails with RateLimited or
\* Overloaded ends the call with that same error, and no driver after it
\* is invoked, also when the next driver would have succeeded.
C2_RetryableBubbles ==
    \A k \in 1..Len(invoked) :
        IsBubbled(invoked[k].res)
        => /\ fb_pc = "done"
           /\ fb_result = invoked[k].res
           /\ fb_result = OwnResult(k)
           /\ Len(invoked) = k

C2_Witness ==
    /\ fb_pc = "done" /\ Len(drivers) = 3 /\ Len(invoked) = 2
    /\ ~fb_result.ok /\ fb_result.err.kind = "Overloaded"
    /\ OwnResult(3).ok

\* C3: when the first driver fails with Api (or any error other than
\* RateLimited/Overloaded) the second driver is invoked with an equal copy
\* of the request, and when it succeeds the call returns its response
\* unchanged.
C3_AbsorbedFailureFallsBack ==
    (fb_pc = "done" /\ Len(drivers) >= 2 /\ IsAbsorbed(OwnResult(1)))
    => /\ Len(invoked) >= 2
       /\ invoked[2].index = 2
       /\ invoked[2].request = request
       /\ invoked[1].request = request
       /\ invoked[2].res.ok
            => fb_result = invoked[2].res /\ fb_result = OwnResult(2)

C3_Witness ==
    /\ fb_pc = "done" /\ Len(invoked) = 2
    /\ invoked[1].res.err.kind = "Api" /\ ~invoked[1].res.ok
    /\ fb_result.ok /\ fb_result = OwnResult(2)

\* C4: when no driver returned Ok and none returned RateLimited or
\* Overloaded, the call returns the error of the last driver of the list;
\* on an empty list it returns Api with status 0.
C4_LastErrorReturned ==
    (fb_pc = "done" /\ \A k \in 1..Len(drivers) : IsAbsorbed(OwnResult(k)))
    => /\ Len(invoked) = Len(drivers)
       /\ IF drivers = <<>>
          THEN fb_result = Err(ErrApi(0))
          ELSE fb_result = OwnResult(Len(drivers))

C4_Witness ==
    /\ fb_pc = "done" /\ Len(drivers) = 3 /\ Len(invoked) = 3
    /\ IsAbsorbed(fb_result)
    /\ invoked[1].res # invoked[3].res /\ invoked[2].res # invoked[3].res

\* C5: when the backend of the primary adapter (Codex or Gemini) of a chain
\* answers every attempt with HTTP 429 or 503, the call returns
\* RateLimited or Overloaded and does not advance to the next driver.
C5_RetryableStatusPropagates ==
    (/\ fb_pc = "done" /\ Len(drivers) >= 1
     /\ drivers[1].kind \in {"codex", "gemini"}
     /\ ~drivers[1].broken
     /\ \A k \in 1..(max_retries + 1) : drivers[1].answers[k] \in {429, 503})
    => /\ IsBubbled(fb_result)
       /\ Len(invoked) = 1


\* ------------------------------------------------------ adapters: claims

\* Positions of the events of one kind (and, for tool events, one id).
EventsAt(kind) == {k \in 1..Len(tx) : tx[k].ev = kind}
ToolEventsAt(kind, id) == {k \in 1..Len(tx) : tx[k].ev = kind /\ tx[k].id = id}
\* The tool-call ids that appear in the events sent.
ToolIds == {tx[k].id : k \in {j \in 1..Len(tx) : tx[j].ev \in {"ToolUseStart", "ToolUseEnd"}}}
StreamReturned == pc = "done" /\ mode = "stream"

\* C6: in a streaming call on an adapter, whatever events the backend
\* sends, every ToolUseEnd sent follows a ToolUseStart with the same id, no
\* id gets a second ToolUseStart or ToolUseEnd, and once the call has
\* returned its response every tool-call id that appears in a sent event
\* has exactly one ToolUseStart and exactly one ToolUseEnd.
C6_ToolEventsPaired ==
    /\ \A b \in EventsAt("ToolUseEnd") :
         \E a \in ToolEventsAt("ToolUseStart", tx[b].id) : a < b
    /\ \A id \in ToolIds :
         /\ Cardinality(ToolEventsAt("ToolUseStart", id)) <= 1
         /\ Cardinality(ToolEventsAt("ToolUseEnd", id)) <= 1
    /\ (StreamReturned /\ result.ok)
       => \A id \in ToolIds :
            /\ Cardinality(ToolEventsAt("ToolUseStart", id)) = 1
            /\ Cardinality(ToolEventsAt("ToolUseEnd", id)) = 1

C8_ToolCallsForceToolUse ==
    (pc = "done" /\ result.ok /\ adapter \in {"codex", "gemini"}
     /\ result.resp.tool_calls # <<>>)
    => result.resp.stop_reason = "ToolUse"

\* The functionCall parts among the parts the Gemini call processed.
SeenCalls == SelectSeq(seen_parts, IsFunctionCall)
GeminiCompleteReturned ==
    pc = "done" /\ adapter = "gemini" /\ mode = "complete" /\ result.ok

C10_StreamStopReasonAsConvert ==
    (StreamReturned /\ adapter = "gemini" /\ result.ok)
    => LET same == GeminiResponse(<<Candidate(TRUE, seen_parts, gemini.finish_reason)>>,
                                  FALSE, 0)
           expected == convert_response(same, 0).res.resp.stop_reason
       IN /\ result.resp.stop_reason = expected
          /\ tx[Len(tx)].stop_reason = expected


\* --------------------------------------------------- pending PKCE logins

\* Most handler invocations (start, callback, paste-code) of one run.
MaxHandlers == 3
\* How often the clock advances in one run.
MaxTicks == 2

\* codex_oauth.rs 27.
MAX_PENDING_AGE_SECS == 15 * 60
\* chrono's Duration::num_seconds: whole seconds, the fraction is dropped.
num_seconds(ms) == ms \div 1000
\* The clock advances by half a second or by the whole TTL.
ClockSteps == {500, MAX_PENDING_AGE_SECS * 1000}

PendingPkce(verifier, redirect_uri, client_id, created_at) ==
    [verifier |-> verifier, redirect_uri |-> redirect_uri,
     client_id |-> client_id, created_at |-> created_at]
NoPending == PendingPkce("", "", "", 0)

\* random_state and generate_pkce_verifier (codex_oauth.rs 357-374): the
\* n-th draw; 16 and 32 random bytes do not repeat.
random_state(n) == "state_" \o ToString(n)
generate_pkce_verifier(n) == "verifier_" \o ToString(n)

\* Faulty variant of MapRemove: the entry stays in the map.
MapRemoveKeeps(m, k) == m
\* DashMap::remove.
MapRemove(m, k) == [x \in DOMAIN m \ {k} |-> m[x]]

\* cleanup_stale_pkce (codex_oauth.rs 348-351): retain by age in seconds.
cleanup_stale_pkce(store, t) ==
    LET keep == {k \in DOMAIN store :
                   num_seconds(t - store[k].created_at) <= MAX_PENDING_AGE_SECS}
    IN [k \in keep |-> store[k]]

\* s.trim().is_empty()
IsBlank(s) == s \in {"", " "}

\* The requests a client can send.  A state presented is one that was
\* issued, or one that never was.
Presented == {random_state(n) : n \in 1..issued} \cup {"unknown"}
StartRequests == {[kind |-> "start", error |-> FALSE, code |-> Absent, state |-> Absent]}
CallbackRequests ==
    {[kind |-> "callback", error |-> e, code |-> "code", state |-> st] :
        e \in BOOLEAN, st \in Presented}
    \cup {[kind |-> "callback", error |-> FALSE, code |-> c, state |-> st] :
            c \in {Absent, " "}, st \in Presented}
    \cup {[kind |-> "callback", error |-> FALSE, code |-> "code", state |-> st] :
            st \in {Absent, " "}}
PasteRequests ==
    {[kind |-> "paste", error |-> FALSE, code |-> "code", state |-> st] :
        st \in Presented \cup {Absent}}

\* A handler invocation: the request, the position in the handler, the
\* pending entry it holds (key, pending) and the response it gave.
Handler(req, at) ==
    [kind |-> req.kind, error |-> req.error, code |-> req.code, state |-> req.state,
     pc |-> at, key |-> Absent, pending |-> NoPending, resp |-> Absent]

PkceInit ==
    /\ PENDING_PKCE = <<>>
    /\ now = 0
    /\ ticks = 0
    /\ issued = 0
    /\ handlers = <<>>
    /\ exchanges = <<>>
    /\ DriversIdle
    /\ ListenerIdle /\ RefreshIdle /\ ConvertIdle /\ AuthContextIdle
    /\ SessionIdle /\ ProbeIdle

notPk == <<fbVars, adVars, lsVars, rfVars, cvVars, acVars, ssVars, pbVars>>

\* Time passes.
Tick ==
    /\ ticks < MaxTicks
    /\ \E d \in ClockSteps : now' = now + d
    /\ ticks' = ticks + 1
    /\ UNCHANGED <<PENDING_PKCE, issued, handlers, exchanges>>
    /\ UNCHANGED notPk

\* A start or paste-code request arrives; its handler opens with the
\* cleanup pass (codex_oauth.rs 887, 1045).
Cleanup ==
    /\ Len(handlers) < MaxHandlers
    /\ PENDING_PKCE' = cleanup_stale_pkce(PENDING_PKCE, now)
    /\ \E req \in StartRequests \cup PasteRequests :
         handlers' = Append(handlers,
                            Handler(req, IF req.kind = "start" THEN "insert"
                                         ELSE IF req.state # Absent THEN "remove"
                                         ELSE "iter"))
    /\ UNCHANGED <<now, ticks, issued, exchanges>>
    /\ UNCHANGED notPk

\* codex_oauth_start after the cleanup (codex_oauth.rs 888-936): the
\* listener cannot be bound and the request fails, or a fresh entry is
\* stored and its state token returned.
StartInsert(h) ==
    /\ handlers[h].pc = "insert"
    /\ \/ /\ handlers' = [handlers EXCEPT ![h].pc = "done", ![h].resp = "bind_failed"]
          /\ UNCHANGED <<PENDING_PKCE, issued>>
       \/ LET state_token == random_state(issued + 1)
              entry == PendingPkce(generate_pkce_verifier(issued + 1),
                                   "redirect_uri", "client_id", now)
          IN /\ PENDING_PKCE' = MapInsert(PENDING_PKCE, state_token, entry)
             /\ issued' = issued + 1
             /\ handlers' = [handlers EXCEPT ![h].pc = "done", ![h].resp = "ok",
                                             ![h].key = state_token]
    /\ UNCHANGED <<now, ticks, exchanges>>
    /\ UNCHANGED notPk

\* Faulty variant of CallbackLookup: the state is looked up, and its entry
\* removed, before the error parameter is looked at.
CallbackLookupFirst ==
    /\ Len(handlers) < MaxHandlers
    /\ \E q \in CallbackRequests :
         IF q.state \in DOMAIN PENDING_PKCE
         THEN /\ PENDING_PKCE' = MapRemove(PENDING_PKCE, q.state)
              /\ handlers' = Append(handlers,
                     IF q.error THEN [Handler(q, "done") EXCEPT !.resp = "oauth_error"]
                     ELSE IF q.code = Absent \/ IsBlank(q.code)
                     THEN [Handler(q, "done") EXCEPT !.resp = "missing_code"]
                     ELSE [Handler(q, "exchange") EXCEPT
                             !.key = q.state, !.pending = PENDING_PKCE[q.state]])
         ELSE /\ handlers' = Append(handlers,
                                    [Handler(q, "done") EXCEPT !.resp = "invalid_state"])
              /\ UNCHANGED PENDING_PKCE
    /\ UNCHANGED <<now, ticks, issued, exchanges>>
    /\ UNCHANGED notPk

\* A callback arrives: codex_oauth_callback up to the state lookup
\* (codex_oauth.rs 942-996), the checks in the order error, code, state,
\* lookup.
CallbackLookup ==
    /\ Len(handlers) < MaxHandlers
    /\ \E q \in CallbackRequests :
         LET reject(r) ==
                 /\ handlers' = Append(handlers, [Handler(q, "done") EXCEPT !.resp = r])
                 /\ UNCHANGED PENDING_PKCE
         IN IF q.error THEN reject("oauth_error")
            ELSE IF q.code = Absent \/ IsBlank(q.code) THEN reject("missing_code")
            ELSE IF q.state = Absent \/ IsBlank(q.state) THEN reject("missing_state")
            ELSE IF q.state \notin DOMAIN PENDING_PKCE THEN reject("invalid_state")
            ELSE /\ PENDING_PKCE' = MapRemove(PENDING_PKCE, q.state)
                 /\ handlers' = Append(handlers,
                                       [Handler(q, "exchange") EXCEPT
                                          !.key = q.state,
                                          !.pending = PENDING_PKCE[q.state]])
    /\ UNCHANGED <<now, ticks, issued, exchanges>>
    /\ UNCHANGED notPk

\* codex_oauth_paste_code with a state (codex_oauth.rs 1047-1051, 1069-1077).
PasteRemove(h) ==
    /\ handlers[h].pc = "remove"
    /\ LET st == handlers[h].state
       IN IF st \in DOMAIN PENDING_PKCE
          THEN /\ PENDING_PKCE' = MapRemove(PENDING_PKCE, st)
               /\ handlers' = [handlers EXCEPT ![h].pc = "exchange", ![h].key = st,
                                               ![h].pending = PENDING_PKCE[st]]
          ELSE /\ handlers' = [handlers EXCEPT ![h].pc = "done",
                                               ![h].resp = "unknown_state"]
               /\ UNCHANGED PENDING_PKCE
    /\ UNCHANGED <<now, ticks, issued, exchanges>>
    /\ UNCHANGED notPk

\* The entries the scan of codex_oauth.rs 1053-1060 can end with: the scan
\* keeps the entry it holds against one that is not newer, so among the
\* newest entries it ends with the one the map yields first.
Latest(store) ==
    {k \in DOMAIN store : \A j \in DOMAIN store : store[j].created_at <= store[k].created_at}

\* codex_oauth_paste_code without a state, the scan (codex_oauth.rs 1053-1060,
\* 1064-1066): a copy of the newest entry is taken, the map is not changed.
PasteIter(h) ==
    /\ handlers[h].pc = "iter"
    /\ IF PENDING_PKCE = <<>>
       THEN handlers' = [handlers EXCEPT ![h].pc = "done", ![h].resp = "no_pending"]
       ELSE \E k \in Latest(PENDING_PKCE) :
              handlers' = [handlers EXCEPT ![h].pc = "take", ![h].key = k,
                                           ![h].pending = PENDING_PKCE[k]]
    /\ UNCHANGED <<PENDING_PKCE, now, ticks, issued, exchanges>>
    /\ UNCHANGED notPk

\* codex_oauth_paste_code without a state, after the scan (codex_oauth.rs
\* 1061-1063): the key is removed, whether or not it is still there, and
\* the copy is used.
PasteTake(h) ==
    /\ handlers[h].pc = "take"
    /\ PENDING_PKCE' = MapRemove(PENDING_PKCE, handlers[h].key)
    /\ handlers' = [handlers EXCEPT ![h].pc = "exchange"]
    /\ UNCHANGED <<now, ticks, issued, exchanges>>
    /\ UNCHANGED notPk

\* exchange_code with the verifier of the entry held, and the rest of the
\* handler (codex_oauth.rs 998-1038, 1079-1115).
Exchange(h) ==
    /\ handlers[h].pc = "exchange"
    /\ exchanges' = Append(exchanges, [handler |-> h, state |-> handlers[h].key,
                                       verifier |-> handlers[h].pending.verifier])
    /\ \E r \in {"connected", "exchange_failed"} :
         handlers' = [handlers EXCEPT ![h].pc = "done", ![h].resp = r]
    /\ UNCHANGED <<PENDING_PKCE, now, ticks, issued>>
    /\ UNCHANGED notPk

PkceNext ==
    \/ Tick
    \/ Cleanup
    \/ CallbackLookup
    \/ \E h \in DOMAIN handlers :
         \/ StartInsert(h) \/ PasteRemove(h) \/ PasteIter(h) \/ PasteTake(h)
         \/ Exchange(h)

SpecPkce == PkceInit /\ [][PkceNext]_vars


\* ------------------------------------------- pending PKCE logins: claims

IssuedStates == {random_state(n) : n \in 1..issued}
\* The callback and paste-code invocations that presented the state S.
PresentedBy(S) ==
    {h \in DOMAIN handlers : handlers[h].kind \in {"callback", "paste"}
                             /\ handlers[h].state = S}
\* The handler has gone past its lookup in the pending store.
PastLookup(h) == handlers[h].pc \in {"exchange", "done"}
\* The handler holds a pending entry and goes on to the token exchange.
Holds(h) ==
    /\ handlers[h].kind \in {"callback", "paste"}
    /\ PastLookup(h)
    /\ handlers[h].key # Absent
Exchanged(h) == \E i \in DOMAIN exchanges : exchanges[i].handler = h
\* A callback that passes the checks made before the lookup; every
\* paste-code request does.
PassesChecks(h) ==
    \/ handlers[h].kind = "paste"
    \/ /\ ~handlers[h].error
       /\ handlers[h].code # Absent /\ ~IsBlank(handlers[h].code)
\* codex_oauth_start has just returned a state token.
StartReturns(h) ==
    /\ handlers[h].pc = "insert"
    /\ handlers'[h].pc = "done"
    /\ handlers'[h].resp = "ok"

\* C11 (as stated): the state token a start returns is a key of the pending
\* store; once a callback or paste-code request presenting S is past its
\* lookup, S is no longer in the store; of the requests presenting S at most
\* one holds the entry, and every other one is rejected as invalid or
\* unknown state and makes no token exchange.
C11_StateRoundTrip ==
    /\ [][\A h \in DOMAIN handlers :
            StartReturns(h) => handlers'[h].key \in DOMAIN PENDING_PKCE']_vars
    /\ [](\A S \in IssuedStates :
            /\ \A h \in PresentedBy(S) : PastLookup(h) => S \notin DOMAIN PENDING_PKCE
            /\ \A h1, h2 \in PresentedBy(S) : Holds(h1) /\ Holds(h2) => h1 = h2
            /\ \A h \in PresentedBy(S) :
                 PastLookup(h) /\ ~Holds(h) =>
                    /\ handlers[h].resp \in {"invalid_state", "unknown_state"}
                    /\ ~Exchanged(h))

\* C11 (amended): the same, for the paste-code requests and the callbacks
\* that carry no error parameter and a non-blank code; a callback rejected
\* before the lookup makes no token exchange either.
C11_CheckedRoundTrip ==
    /\ [][\A h \in DOMAIN handlers :
            StartReturns(h) => handlers'[h].key \in DOMAIN PENDING_PKCE']_vars
    /\ [](\A S \in IssuedStates :
            /\ \A h \in PresentedBy(S) :
                 PassesChecks(h) /\ PastLookup(h) => S \notin DOMAIN PENDING_PKCE
            /\ \A h1, h2 \in PresentedBy(S) : Holds(h1) /\ Holds(h2) => h1 = h2
            /\ \A h \in PresentedBy(S) :
                 PastLookup(h) /\ ~Holds(h) =>
                    /\ PassesChecks(h) =>
                         handlers[h].resp \in {"invalid_state", "unknown_state"}
                    /\ ~Exchanged(h))

\* A start returned S, one request presenting S made the token exchange and
\* a second request presenting S was rejected.
C11_Witness ==
    \E S \in IssuedStates : \E h1, h2 \in PresentedBy(S) :
        /\ Holds(h1) /\ Exchanged(h1)
        /\ handlers[h2].pc = "done"
        /\ handlers[h2].resp \in {"invalid_state", "unknown_state"}

\* C12: no two handler invocations go on to the token exchange with the
\* verifier of the same pending entry.
C12_ClaimedByOneHandler ==
    \A h1, h2 \in DOMAIN handlers :
        Holds(h1) /\ Holds(h2)
        /\ handlers[h1].pending.verifier = handlers[h2].pending.verifier
        => h1 = h2

\* A cleanup pass runs in this step.
CleanupPass ==
    /\ Len(handlers') = Len(handlers) + 1
    /\ handlers'[Len(handlers')].kind \in {"start", "paste"}
Age(store, k) == now - store[k].created_at

\* C13: after a cleanup pass the store holds no entry older than the TTL,
\* and the entries within the TTL are kept.
C13_CleanupDropsStale ==
    [][CleanupPass =>
         /\ \A k \in DOMAIN PENDING_PKCE' :
              Age(PENDING_PKCE', k) <= MAX_PENDING_AGE_SECS * 1000
         /\ \A k \in DOMAIN PENDING_PKCE :
              Age(PENDING_PKCE, k) <= MAX_PENDING_AGE_SECS * 1000
              => k \in DOMAIN PENDING_PKCE']_vars


\* ------------------------------------------------ refresh of a credential

\* Most refresh requests of one run.
MaxRefreshes == 2

\* A token as the code reads it: the string, and the claims parse_jwt_payload
\* decodes from it (Absent: no such claim, or the string is no JWT).
Jwt(id, acct, aud, scope) == [id |-> id, acct |-> acct, aud |-> aud, scope |-> scope]
\* Option<String>::None, for a token.
NoJwt == Jwt(Absent, Absent, Absent, Absent)
\* Option<DateTime>::None, Option<i64>::None.
NoTime == -1

\* codex_oauth.rs 210-233, 188-208, 270-291: the claim, when the payload has it.
jwt_chatgpt_account_id(tok) == tok.acct
jwt_client_id_from_id_token(tok) == tok.aud
jwt_scope_from_token(tok) == tok.scope

\* Faulty variant of OptionOr: the stored value is dropped.
OptionOrFirst(a, b, none) == a
\* Option::or.
OptionOr(a, b, none) == IF a # none THEN a ELSE b

StoredCodexAuth(account_id, access_token, refresh_token, id_token, token_type, scope, client_id, issued_at, expires_at, source) ==
    [openai_api_key |-> Absent, chatgpt_account_id |-> account_id,
     access_token |-> access_token, refresh_token |-> refresh_token,
     id_token |-> id_token, token_type |-> token_type, scope |-> scope,
     client_id |-> client_id, issued_at |-> issued_at, expires_at |-> expires_at,
     source |-> source]

TokenResponse(access_token, refresh_token, id_token, token_type, scope, expires_in) ==
    [access_token |-> access_token, refresh_token |-> refresh_token,
     id_token |-> id_token, token_type |-> token_type, scope |-> scope,
     expires_in |-> expires_in]
NoTokenResponse == TokenResponse(NoJwt, Absent, NoJwt, "", "", NoTime)

\* hydrate_scope_from_tokens (codex_oauth.rs 293-304).
hydrate_scope_from_tokens(a) ==
    IF ~IsBlank(a.scope) THEN a
    ELSE LET sc == OptionOr(jwt_scope_from_token(a.access_token),
                            IF a.id_token # NoJwt
                            THEN jwt_scope_from_token(a.id_token) ELSE Absent,
                            Absent)
         IN IF sc # Absent THEN [a EXCEPT !.scope = sc] ELSE a

\* update_auth_from_token (codex_oauth.rs 680-704), at time t.
update_auth_from_token(a, tok, source, t) ==
    LET id_token == OptionOr(tok.id_token, a.id_token, NoJwt)
        merged == [a EXCEPT
                     !.access_token = tok.access_token,
                     !.chatgpt_account_id =
                        OptionOr(jwt_chatgpt_account_id(tok.access_token),
                                 a.chatgpt_account_id, Absent),
                     !.refresh_token = OptionOr(tok.refresh_token, a.refresh_token, Absent),
                     !.id_token = id_token,
                     !.token_type = IF tok.token_type = "" THEN a.token_type
                                    ELSE tok.token_type,
                     !.scope = IF tok.scope # "" THEN tok.scope ELSE a.scope]
        hydrated == hydrate_scope_from_tokens(merged)
    IN [hydrated EXCEPT
          !.issued_at = t,
          !.expires_at = IF tok.expires_in = NoTime THEN NoTime ELSE t + tok.expires_in,
          !.source = source,
          !.client_id = IF id_token # NoJwt
                        THEN OptionOr(jwt_client_id_from_id_token(id_token),
                                      a.client_id, Absent)
                        ELSE a.client_id]

\* auth_client_id (codex_oauth.rs 248-259).
auth_client_id(a, fallback) ==
    IF a.client_id # Absent /\ ~IsBlank(a.client_id) THEN a.client_id
    ELSE OptionOr(IF a.id_token # NoJwt THEN jwt_client_id_from_id_token(a.id_token)
                  ELSE Absent,
                  fallback, Absent)

\* The tokens and answers of the token endpoint.
AccessTokens ==
    {Jwt("at_plain", Absent, Absent, Absent), Jwt("at_A", "acct_A", Absent, Absent),
     Jwt("at_B", "acct_B", Absent, "openid")}
IdTokens == {Jwt("id_A", "acct_B", "client_A", Absent)}
RefreshTokens == {"rt_1"}
\* token_type, scope and expires_in are all given or all left out.
TokenResponses ==
    {TokenResponse(at, rt, id, x[1], x[2], x[3]) :
        at \in AccessTokens, rt \in RefreshTokens \cup {Absent},
        id \in IdTokens \cup {NoJwt},
        x \in {<<"", "", NoTime>>, <<"Bearer", "openid", 3600>>}}
\* The credentials a refresh can start from.
StoredAuths ==
    {StoredCodexAuth(acct, at, rt, id, "Bearer", "", cid, 0, NoTime, "pkce_callback") :
        acct \in {Absent, "acct_A"}, at \in {Jwt("at_0", Absent, Absent, Absent)},
        rt \in {Absent, "rt_0"}, id \in {NoJwt, Jwt("id_0", Absent, "client_0", Absent)},
        cid \in {Absent, "client_0"}}

\* What the last refresh request got: no request, a failure, or an answer.
RefreshOutcome(requested, ok, resp) == [requested |-> requested, ok |-> ok, resp |-> resp]

RefreshInit ==
    /\ auth \in StoredAuths
    /\ auth_before = auth
    /\ token = RefreshOutcome(FALSE, FALSE, NoTokenResponse)
    /\ refreshes = 0
    /\ DriversIdle
    /\ PkceIdle /\ ListenerIdle /\ ConvertIdle /\ AuthContextIdle
    /\ SessionIdle /\ ProbeIdle

notRf == <<fbVars, adVars, pkVars, lsVars, cvVars, acVars, ssVars, pbVars>>

\* refresh_auth_if_possible (codex_oauth.rs 706-721), the token endpoint
\* answering as refresh_access_token reports it (codex_oauth.rs 636-678).
refresh_auth_if_possible ==
    /\ refreshes < MaxRefreshes
    /\ refreshes' = refreshes + 1
    /\ auth_before' = auth
    /\ IF auth.refresh_token = Absent
       THEN /\ token' = RefreshOutcome(FALSE, FALSE, NoTokenResponse)
            /\ UNCHANGED auth
       ELSE \/ /\ token' = RefreshOutcome(TRUE, FALSE, NoTokenResponse)
               /\ UNCHANGED auth
            \/ \E resp \in TokenResponses :
                 LET client_id == auth_client_id(auth, "fallback_client_id")
                     updated == update_auth_from_token(auth, resp, "refresh_token",
                                                       refreshes + 1)
                 IN /\ token' = RefreshOutcome(TRUE, TRUE, resp)
                    /\ auth' = IF updated.client_id = Absent
                               THEN [updated EXCEPT !.client_id = client_id]
                               ELSE updated
    /\ UNCHANGED notRf

RefreshNext == refresh_auth_if_possible

SpecRefresh == RefreshInit /\ [][RefreshNext]_vars


\* --------------------------------------- refresh of a credential: claims

\* The last refresh request was answered and the answer applied.
Applied == token.ok

\* C14: an applied refresh response replaces access_token; refresh_token and
\* id_token are replaced when the response supplies one and are otherwise
\* left as stored; a refresh_token that was present stays present, whatever
\* the refresh request ended with.
C14_RefreshMerge ==
    /\ Applied =>
         /\ auth.access_token = token.resp.access_token
         /\ auth.refresh_token = IF token.resp.refresh_token # Absent
                                 THEN token.resp.refresh_token
                                 ELSE auth_before.refresh_token
         /\ auth.id_token = IF token.resp.id_token # NoJwt
                            THEN token.resp.id_token
                            ELSE auth_before.id_token
    /\ ~Applied => auth = auth_before
    /\ auth_before.refresh_token # Absent => auth.refresh_token # Absent

\* A second refresh whose answer carries neither refresh_token nor id_token
\* was applied to a credential that has both.
C14_Witness ==
    /\ refreshes = 2
    /\ Applied
    /\ token.resp.refresh_token = Absent /\ token.resp.id_token = NoJwt
    /\ auth_before.refresh_token # Absent /\ auth_before.id_token # NoJwt
    /\ auth.refresh_token = auth_before.refresh_token
    /\ auth.access_token # auth_before.access_token

\* C15: a credential that has an account id keeps it across a refresh,
\* whatever the new access token carries.
C15_AccountIdKept ==
    Applied /\ auth_before.chatgpt_account_id # Absent
    => auth.chatgpt_account_id = auth_before.chatgpt_account_id


\* --------------------------------------------- conversion of a conversation

\* Most messages of one conversation.
MaxMessages == 2

\* ContentBlock variants beside Text and ToolUse (openfang_types::message).
ImageBlock == [type |-> "Image", text |-> <<>>, id |-> "", name |-> ""]
ToolResultBlock(tool_use_id) ==
    [type |-> "ToolResult", text |-> <<>>, id |-> tool_use_id, name |-> ""]
\* Message: a role and MessageContent::Text(text) or MessageContent::Blocks(blocks).
TextMessage(role, text) ==
    [role |-> role, kind |-> "Text", text |-> text, blocks |-> <<>>]
BlocksMessage(role, blocks) ==
    [role |-> role, kind |-> "Blocks", text |-> <<>>, blocks |-> blocks]

\* str::trim on a token sequence; " " is the whitespace token.
RECURSIVE TrimStart(_)
TrimStart(t) == IF t # <<>> /\ Head(t) = " " THEN TrimStart(Tail(t)) ELSE t
RECURSIVE TrimEnd(_)
TrimEnd(t) ==
    IF t # <<>> /\ t[Len(t)] = " " THEN TrimEnd(SubSeq(t, 1, Len(t) - 1)) ELSE t
Trim(t) == TrimEnd(TrimStart(t))

\* The items of the `input` array (codex.rs 250-335).
InputMessage(role, content) ==
    [type |-> "message", role |-> role, content |-> content, call_id |-> "", name |-> ""]
FunctionCall(call_id, name) ==
    [type |-> "function_call", role |-> "", content |-> <<>>, call_id |-> call_id,
     name |-> name]
FunctionCallOutput(call_id) ==
    [type |-> "function_call_output", role |-> "", content |-> <<>>,
     call_id |-> call_id, name |-> ""]
InputText(t) == [type |-> "input_text", text |-> t]
OutputTextPart(t) == [type |-> "output_text", text |-> t]
InputImage == [type |-> "input_image", text |-> <<>>]

\* Faulty variant of IsOrphan: no tool result is taken for an orphan.
IsOrphanNever(seen_call_ids, tool_use_id) == FALSE
\* codex.rs 289: the id was not seen as a function_call of this pass.
IsOrphan(seen_call_ids, tool_use_id) == tool_use_id \notin seen_call_ids

\* push_user_message (codex.rs 215-234).
push_user_message(items, text_parts, image_parts) ==
    LET texts == SelectSeq(text_parts, LAMBDA t : t # <<>>)
        content == [i \in 1..Len(texts) |-> InputText(texts[i])] \o image_parts
    IN IF content = <<>> THEN items
       ELSE Append(items, InputMessage("user", content))

\* The loop over the blocks of a user message (codex.rs 268-303); o holds
\* input_items, seen_call_ids, text_parts and image_parts.
RECURSIVE CodexUserBlocks(_, _)
CodexUserBlocks(o, blocks) ==
    IF blocks = <<>> THEN o
    ELSE LET b == Head(blocks)
             n == CASE b.type = "Text" ->
                         IF b.text # <<>>
                         THEN [o EXCEPT !.text_parts = Append(@, b.text)] ELSE o
                    [] b.type = "Image" ->
                         [o EXCEPT !.image_parts = Append(@, InputImage)]
                    [] b.type = "ToolResult" ->
                         IF IsOrphan(o.seen_call_ids, b.id) THEN o
                         ELSE [o EXCEPT !.input_items = Append(@, FunctionCallOutput(b.id))]
                    [] OTHER -> o
         IN CodexUserBlocks(n, Tail(blocks))

\* The loop over the blocks of an assistant message (codex.rs 307-329).
RECURSIVE CodexAssistantBlocks(_, _)
CodexAssistantBlocks(o, blocks) ==
    IF blocks = <<>> THEN o
    ELSE LET b == Head(blocks)
             n == CASE b.type = "Text" ->
                         IF b.text # <<>>
                         THEN [o EXCEPT !.text_parts = Append(@, b.text)] ELSE o
                    [] b.type = "ToolUse" ->
                         [o EXCEPT !.seen_call_ids = @ \cup {b.id},
                                   !.input_items = Append(@, FunctionCall(b.id, b.name))]
                    [] OTHER -> o
         IN CodexAssistantBlocks(n, Tail(blocks))

\* Vec<String>::join("").
RECURSIVE JoinText(_)
JoinText(parts) == IF parts = <<>> THEN <<>> ELSE Head(parts) \o JoinText(Tail(parts))

\* One pass of the loop over request.messages (codex.rs 240-340).
CodexOnMessage(o, msg) ==
    LET fresh == [o EXCEPT !.text_parts = <<>>, !.image_parts = <<>>]
    IN CASE msg.role = "system" -> o
         [] msg.kind = "Text" ->
              IF Trim(msg.text) = <<>> THEN o
              ELSE [o EXCEPT !.input_items =
                      Append(@, InputMessage(msg.role,
                                  <<IF msg.role = "user" THEN InputText(Trim(msg.text))
                                    ELSE OutputTextPart(Trim(msg.text))>>))]
         [] msg.role = "user" ->
              LET d == CodexUserBlocks(fresh, msg.blocks)
              IN [d EXCEPT !.input_items =
                    push_user_message(d.input_items, d.text_parts, d.image_parts)]
         [] OTHER ->
              LET d == CodexAssistantBlocks(fresh, msg.blocks)
              IN IF d.text_parts = <<>> THEN d
                 ELSE [d EXCEPT !.input_items =
                         Append(@, InputMessage("assistant",
                                      <<OutputTextPart(JoinText(d.text_parts))>>))]

RECURSIVE CodexOnMessages(_, _)
CodexOnMessages(o, msgs) ==
    IF msgs = <<>> THEN o
    ELSE CodexOnMessages(CodexOnMessage(o, Head(msgs)), Tail(msgs))

\* build_input_items (codex.rs 236-351).
build_input_items(msgs) ==
    LET o == CodexOnMessages([input_items |-> <<>>, seen_call_ids |-> {},
                              text_parts |-> <<>>, image_parts |-> <<>>], msgs)
    IN IF o.input_items = <<>>
       THEN <<InputMessage("user", <<InputText(<<"Continue.">>)>>)>>
       ELSE o.input_items

\* GeminiPart::FunctionResponse (gemini.rs 216-223): the name is empty.
FunctionResponsePart == [kind |-> "functionResponse", text |-> <<>>, name |-> ""]
GeminiContent(role, parts) == [role |-> role, parts |-> parts]

\* The loop over the blocks of a message (gemini.rs 195-227).
RECURSIVE GeminiBlockParts(_)
GeminiBlockParts(blocks) ==
    IF blocks = <<>> THEN <<>>
    ELSE LET b == Head(blocks)
             here == CASE b.type = "Text" -> <<TextPart(b.text)>>
                       [] b.type = "ToolUse" -> <<FunctionCallPart(b.name)>>
                       [] b.type = "Image" -> <<InlineDataPart>>
                       [] b.type = "ToolResult" -> <<FunctionResponsePart>>
                       [] OTHER -> <<>>
         IN here \o GeminiBlockParts(Tail(blocks))

\* convert_messages, the content entries (gemini.rs 171-241).
RECURSIVE convert_messages(_)
convert_messages(msgs) ==
    IF msgs = <<>> THEN <<>>
    ELSE LET msg == Head(msgs)
             parts == IF msg.kind = "Text" THEN <<TextPart(msg.text)>>
                      ELSE GeminiBlockParts(msg.blocks)
             here == IF msg.role = "system" \/ parts = <<>> THEN <<>>
                     ELSE <<GeminiContent(IF msg.role = "user" THEN "user" ELSE "model",
                                          parts)>>
         IN here \o convert_messages(Tail(msgs))

\* The conversations converted.
CallIds == {"call_a", "call_b"}
Blocks ==
    {TextBlock(<<"hi">>), ImageBlock, ToolUseBlock("call_a", "tool")}
    \cup {ToolResultBlock(c) : c \in CallIds}
BlockLists == {<<b>> : b \in Blocks} \cup {<<a, b>> : a, b \in Blocks}
Messages ==
    {TextMessage("system", <<"sys">>), TextMessage("user", <<"hi", " ">>),
     TextMessage("assistant", <<" ">>)}
    \cup {BlocksMessage(r, bl) : r \in {"user", "assistant"}, bl \in BlockLists}
Conversations == UNION {[1..n -> Messages] : n \in 0..MaxMessages}

\* Nothing converted yet.
NotBuilt == [built |-> FALSE, v |-> <<>>]
Built(v) == [built |-> TRUE, v |-> v]

ConvertInit ==
    /\ messages \in Conversations
    /\ input_items = NotBuilt
    /\ contents = NotBuilt
    /\ DriversIdle
    /\ PkceIdle /\ ListenerIdle /\ RefreshIdle /\ AuthContextIdle
    /\ SessionIdle /\ ProbeIdle

notCv == <<fbVars, adVars, pkVars, lsVars, rfVars, acVars, ssVars, pbVars>>

\* The Codex adapter builds the input of its request (codex.rs 502-505).
CodexBuildInput ==
    /\ input_items = NotBuilt
    /\ input_items' = Built(build_input_items(messages))
    /\ UNCHANGED <<messages, contents>>
    /\ UNCHANGED notCv

\* The Gemini adapter builds the contents of its request (gemini.rs 362).
GeminiConvertMessages ==
    /\ contents = NotBuilt
    /\ contents' = Built(convert_messages(messages))
    /\ UNCHANGED <<messages, input_items>>
    /\ UNCHANGED notCv

ConvertNext == CodexBuildInput \/ GeminiConvertMessages

SpecConvert == ConvertInit /\ [][ConvertNext]_vars


\* ------------------------------------- conversion of a conversation: claims

\* The blocks of the conversation in order, each with the role of its message.
RECURSIVE FlatBlocks(_)
FlatBlocks(msgs) ==
    IF msgs = <<>> THEN <<>>
    ELSE [i \in 1..Len(Head(msgs).blocks) |->
            [role |-> Head(msgs).role, block |-> Head(msgs).blocks[i]]]
         \o FlatBlocks(Tail(msgs))
\* The k-th block is a ToolResult with no ToolUse of its id before it.
OrphanAt(flat, k) ==
    /\ flat[k].block.type = "ToolResult"
    /\ ~\E j \in 1..(k - 1) :
          flat[j].block.type = "ToolUse" /\ flat[j].block.id = flat[k].block.id
ToolResultsOf(flat) == {k \in DOMAIN flat : flat[k].block.type = "ToolResult"}

\* C16: in the input list every function_call_output comes after a
\* function_call with the same call_id, and a call id whose ToolResults are
\* all orphans has no function_call_output.
C16_OutputsFollowCalls ==
    input_items.built =>
      LET items == input_items.v
          flat == FlatBlocks(messages)
      IN /\ \A k \in DOMAIN items :
               items[k].type = "function_call_output" =>
                  \E j \in 1..(k - 1) : /\ items[j].type = "function_call"
                                        /\ items[j].call_id = items[k].call_id
         /\ \A c \in CallIds :
               (\A k \in ToolResultsOf(flat) : flat[k].block.id = c => OrphanAt(flat, k))
               => ~\E k \in DOMAIN items : /\ items[k].type = "function_call_output"
                                           /\ items[k].call_id = c

\* A conversation with a matched and an orphaned tool result: the output of
\* the first is in the input list, the second is dropped.
C16_Witness ==
    /\ input_items.built
    /\ \E k \in DOMAIN FlatBlocks(messages) : OrphanAt(FlatBlocks(messages), k)
    /\ \E k \in DOMAIN input_items.v :
          /\ input_items.v[k].type = "function_call_output"
          /\ input_items.v[k].call_id = "call_a"
    /\ ~\E k \in DOMAIN input_items.v :
          /\ input_items.v[k].type = "function_call_output"
          /\ input_items.v[k].call_id = "call_b"

\* The functionResponse parts of the contents.
RECURSIVE AllParts(_)
AllParts(cs) == IF cs = <<>> THEN <<>> ELSE Head(cs).parts \o AllParts(Tail(cs))
FunctionResponses(cs) ==
    {k \in DOMAIN AllParts(cs) : AllParts(cs)[k].kind = "functionResponse"}

\* C17: convert_messages emits a functionResponse part only for the
\* ToolResult blocks that have an earlier ToolUse block of their id; the
\* orphans are dropped.
C17_OrphansDropped ==
    contents.built =>
      LET flat == FlatBlocks(messages)
      IN Cardinality(FunctionResponses(contents.v))
           = Cardinality({k \in ToolResultsOf(flat) : ~OrphanAt(flat, k)})


\* ------------------------------------------- loopback callback listener

\* Most ensure_loopback_callback_listener calls of one run.
MaxEnsures == 3

Uri(scheme, host, port, path) ==
    [scheme |-> scheme, host |-> host, port |-> port, path |-> path]
\* Option<u16>::None: the URI names no port.
NoPort == 0
LoopbackCallbackTarget(bind_addr, callback_path) ==
    [some |-> TRUE, bind_addr |-> bind_addr, callback_path |-> callback_path]
NoTarget == [some |-> FALSE, bind_addr |-> NoPort, callback_path |-> ""]

\* The paths that start with '/'.
SlashPaths == {"/", "/auth/callback", "/cb"}

\* parse_loopback_callback_target (codex_oauth.rs 451-476); the address is
\* 127.0.0.1 and the port of the URI, or 80.
parse_loopback_callback_target(uri) ==
    IF uri.scheme # "http" THEN NoTarget
    ELSE IF uri.host \notin {"localhost", "127.0.0.1"} THEN NoTarget
    ELSE LET port == IF uri.port = NoPort THEN 80 ELSE uri.port
             path == IF IsBlank(uri.path) THEN "/auth/callback" ELSE uri.path
         IN IF path \notin SlashPaths THEN NoTarget
            ELSE LoopbackCallbackTarget(port, path)

\* The redirect URIs a start-login is made with.
RedirectUris ==
    {Uri("http", "localhost", 1455, "/auth/callback"),
     Uri("http", "127.0.0.1", 1455, "/cb"),
     Uri("http", "localhost", NoPort, "/auth/callback"),
     Uri("https", "example.com", NoPort, "/cb")}

\* LoopbackCallbackServer in the slot; handle is the index of its task.
LoopbackCallbackServer(bind_addr, callback_path, handle) ==
    [some |-> TRUE, bind_addr |-> bind_addr, callback_path |-> callback_path,
     handle |-> handle]

\* A listener and its task.  status: "bound" (the socket is bound, the task
\* not yet spawned), "running", "aborted", "finished"; socket: the port is
\* still held.  An aborted task gives up its socket when it is torn down.
Task(bind_addr, callback_path, status, socket) ==
    [bind_addr |-> bind_addr, callback_path |-> callback_path, status |-> status,
     socket |-> socket]
\* JoinHandle::is_finished.
is_finished(h) ==
    \/ tasks[h].status = "finished"
    \/ tasks[h].status = "aborted" /\ ~tasks[h].socket
\* Faulty variant of abort: the task keeps running.
AbortNothing(ts, h) == ts
\* JoinHandle::abort: a running task is cancelled, a finished one is left alone.
abort(ts, h) ==
    [ts EXCEPT ![h].status = IF @ = "running" THEN "aborted" ELSE @]
\* Some listener of this process holds the address.
PortHeld(bind_addr) ==
    \E h \in DOMAIN tasks : tasks[h].socket /\ tasks[h].bind_addr = bind_addr

\* One call: its target, where it stands, whether it found its own live
\* listener in the slot, the task it aborted, the task it created and how
\* it returned.
Ensure(target, at, same_alive, outcome) ==
    [target |-> target, pc |-> at, same_alive |-> same_alive, aborted |-> 0,
     handle |-> 0, outcome |-> outcome]

ListenerInit ==
    /\ LOOPBACK_CALLBACK_TASK = NoServer
    /\ tasks = <<>>
    /\ ensures = <<>>
    /\ DriversIdle
    /\ PkceIdle /\ RefreshIdle /\ ConvertIdle /\ AuthContextIdle
    /\ SessionIdle /\ ProbeIdle

notLs == <<fbVars, adVars, pkVars, rfVars, cvVars, acVars, ssVars, pbVars>>

\* A call arrives: the target is parsed and compared with the slot
\* (codex_oauth.rs 482-498).
EnsureCheck ==
    /\ Len(ensures) < MaxEnsures
    /\ \E uri \in RedirectUris :
         LET target == parse_loopback_callback_target(uri)
             current == LOOPBACK_CALLBACK_TASK
             same_alive == /\ current.some
                           /\ current.bind_addr = target.bind_addr
                           /\ current.callback_path = target.callback_path
                           /\ ~is_finished(current.handle)
         IN ensures' = Append(ensures,
                IF ~target.some THEN Ensure(target, "done", FALSE, "not_loopback")
                ELSE IF same_alive THEN Ensure(target, "done", TRUE, "unchanged")
                ELSE Ensure(target, "take", FALSE, Absent))
    /\ UNCHANGED <<LOOPBACK_CALLBACK_TASK, tasks>>
    /\ UNCHANGED notLs

\* The slot is emptied and the task found in it aborted (codex_oauth.rs 500-507).
EnsureTake(e) ==
    /\ ensures[e].pc = "take"
    /\ LET current == LOOPBACK_CALLBACK_TASK
       IN /\ LOOPBACK_CALLBACK_TASK' = NoServer
          /\ IF current.some
             THEN /\ tasks' = abort(tasks, current.handle)
                  /\ ensures' = [ensures EXCEPT ![e].pc = "bind",
                                                ![e].aborted = current.handle]
             ELSE /\ ensures' = [ensures EXCEPT ![e].pc = "bind"]
                  /\ UNCHANGED tasks
    /\ UNCHANGED notLs

\* TcpListener::bind (codex_oauth.rs 509-516): it fails when the address is
\* held, by a listener of this process or by another program.
EnsureBind(e) ==
    /\ ensures[e].pc = "bind"
    /\ LET target == ensures[e].target
       IN \/ /\ ensures' = [ensures EXCEPT ![e].pc = "done",
                                           ![e].outcome = "bind_failed"]
             /\ UNCHANGED tasks
          \/ /\ ~PortHeld(target.bind_addr)
             /\ tasks' = Append(tasks, Task(target.bind_addr, target.callback_path,
                                            "bound", TRUE))
             /\ ensures' = [ensures EXCEPT ![e].pc = "spawn",
                                           ![e].handle = Len(tasks) + 1]
    /\ UNCHANGED LOOPBACK_CALLBACK_TASK
    /\ UNCHANGED notLs

\* The task is spawned and recorded in the slot (codex_oauth.rs 518-540).
EnsureSpawn(e) ==
    /\ ensures[e].pc = "spawn"
    /\ LET target == ensures[e].target
           h == ensures[e].handle
       IN /\ tasks' = [tasks EXCEPT ![h].status = "running"]
          /\ LOOPBACK_CALLBACK_TASK' =
                LoopbackCallbackServer(target.bind_addr, target.callback_path, h)
    /\ ensures' = [ensures EXCEPT ![e].pc = "done", ![e].outcome = "listening"]
    /\ UNCHANGED notLs

\* The runtime tears an aborted task down: its listener is dropped.
TaskDropped(h) ==
    /\ tasks[h].status = "aborted" /\ tasks[h].socket
    /\ tasks' = [tasks EXCEPT ![h].socket = FALSE]
    /\ UNCHANGED <<LOOPBACK_CALLBACK_TASK, ensures>>
    /\ UNCHANGED notLs

\* axum::serve returns an error and the task ends (codex_oauth.rs 531-533).
TaskFails(h) ==
    /\ tasks[h].status = "running"
    /\ tasks' = [tasks EXCEPT ![h].status = "finished", ![h].socket = FALSE]
    /\ UNCHANGED <<LOOPBACK_CALLBACK_TASK, ensures>>
    /\ UNCHANGED notLs

ListenerNext ==
    \/ EnsureCheck
    \/ \E e \in DOMAIN ensures : EnsureTake(e) \/ EnsureBind(e) \/ EnsureSpawn(e)
    \/ \E h \in DOMAIN tasks : TaskDropped(h) \/ TaskFails(h)

SpecListener == ListenerInit /\ [][ListenerNext]_vars

\* The slot records the target.
Records(slot, target) ==
    /\ slot.some
    /\ slot.bind_addr = target.bind_addr
    /\ slot.callback_path = target.callback_path
\* The call went past the comparison: the target differs, the task finished
\* or the slot was empty.
Replaces(e) == ensures[e].target.some /\ ~ensures[e].same_alive
\* A call that found its own live listener has aborted and bound nothing.
NoOpWhenSameAlive ==
    \A e \in DOMAIN ensures :
        ensures[e].same_alive =>
            /\ ensures[e].pc = "done" /\ ensures[e].outcome = "unchanged"
            /\ ensures[e].aborted = 0 /\ ensures[e].handle = 0
\* The step in which such a call arrives and returns changes neither the slot
\* nor any task.
NoOpStep ==
    \A e \in DOMAIN ensures' :
        (e \notin DOMAIN ensures /\ ensures'[e].same_alive) =>
            UNCHANGED <<LOOPBACK_CALLBACK_TASK, tasks>>
\* Once a replacing call is past its abort, the task it found in the slot no
\* longer runs; in particular when it has bound its listener.
AbortedBeforeBind ==
    \A e \in DOMAIN ensures :
        (Replaces(e) /\ ensures[e].pc \in {"bind", "spawn", "done"}
                     /\ ensures[e].aborted # 0) =>
            tasks[ensures[e].aborted].status \in {"aborted", "finished"}
\* The call e returns in this step.
Returns(e) == ensures[e].pc # "done" /\ ensures'[e].pc = "done"

\* C18 (as stated): a call that finds a live listener for its own address and
\* path changes nothing; any other call aborts the previous task before it
\* binds the new listener, and when it returns the slot records the new target.
C18_IdempotentReplace ==
    /\ [](NoOpWhenSameAlive /\ AbortedBeforeBind)
    /\ [][/\ NoOpStep
          /\ \A e \in DOMAIN ensures :
                Returns(e) => Records(LOOPBACK_CALLBACK_TASK', ensures[e].target)]_vars

\* C18 (amended): a call that finds a live listener for its own address and
\* path changes nothing; any other call aborts the task it finds in the slot
\* before it binds; if the bind succeeds the slot records the new target when
\* the call returns, and if the bind fails the call returns the error, creates
\* no task and leaves the slot as it was.
C18_ReplaceWhenBound ==
    /\ [](NoOpWhenSameAlive /\ AbortedBeforeBind)
    /\ [][/\ NoOpStep
          /\ \A e \in DOMAIN ensures :
                Returns(e) =>
                    IF ensures'[e].outcome = "listening"
                    THEN /\ Records(LOOPBACK_CALLBACK_TASK', ensures[e].target)
                         /\ LOOPBACK_CALLBACK_TASK'.handle = ensures[e].handle
                    ELSE /\ ensures'[e].outcome = "bind_failed"
                         /\ ensures'[e].handle = 0
                         /\ UNCHANGED <<LOOPBACK_CALLBACK_TASK, tasks>>]_vars

\* One call listens, a second found that live listener and changed nothing,
\* a third aborted it for another path on the same port and failed to bind.
C18_Witness ==
    \E e, f, g \in DOMAIN ensures :
        /\ ensures[e].outcome = "listening"
        /\ ensures[f].same_alive /\ ensures[f].pc = "done"
        /\ ensures[g].outcome = "bind_failed"
        /\ ensures[g].aborted = ensures[e].handle
        /\ tasks[ensures[g].aborted].status = "aborted"


\* ------------------------------------------ credentials of a Codex call

\* Most Codex calls of one run.
MaxCalls == 3

\* A string is the sequence of its characters; a token or an account id
\* counts as one character, " " is white space.
\* Option<String>.
NoText == [some |-> FALSE, v |-> <<>>]
SomeText(v) == [some |-> TRUE, v |-> v]
\* Faulty variant of NonEmpty: the value is never there.
NonEmptyNever(o) == NoText
\* .map(|s| s.trim().to_string()).filter(|s| !s.is_empty())
NonEmpty(o) ==
    IF o.some /\ Trim(o.v) # <<>> THEN SomeText(Trim(o.v)) ELSE NoText
\* Option::or.
OrText(a, b) == IF a.some THEN a ELSE b

\* The chatgpt_account_id claim of an access token (codex.rs 64-90,
\* codex_oauth.rs 210-233): a text that is no JWT of AccessTokens has none.
account_id_from_access_token(text) ==
    IF \E j \in AccessTokens : text = <<j.id>> /\ j.acct # Absent
    THEN SomeText(<<(CHOOSE j \in AccessTokens : text = <<j.id>>).acct>>)
    ELSE NoText

\* CodexDriver::new (codex.rs 23-36).
CodexDriver(access_token, account_id) ==
    [access_token |-> access_token, account_id |-> NonEmpty(account_id)]

\* resolve_auth_context (codex.rs 92-124).
resolve_auth_context(self, var_access_token, var_account_id) ==
    LET env_token == NonEmpty(var_access_token)
        fallback_token == Trim(self.access_token)
        access_token == IF env_token.some THEN env_token.v ELSE fallback_token
        env_acct == NonEmpty(var_account_id)
        fallback_account_id == NonEmpty(self.account_id)
        account_id == OrText(OrText(env_acct, fallback_account_id),
                             account_id_from_access_token(access_token))
    IN IF access_token = <<>>
       THEN [ok |-> FALSE, err |-> "MissingApiKey", status |-> 0,
             access_token |-> <<>>, account_id |-> <<>>]
       ELSE IF ~account_id.some
       THEN [ok |-> FALSE, err |-> "Api", status |-> 401,
             access_token |-> <<>>, account_id |-> <<>>]
       ELSE [ok |-> TRUE, err |-> "", status |-> 0,
             access_token |-> access_token, account_id |-> account_id.v]

\* auth_account_id (codex_oauth.rs 235-246) of a stored credential without
\* id token.
auth_account_id(access_token, chatgpt_account_id) ==
    OrText(NonEmpty(chatgpt_account_id),
           account_id_from_access_token(access_token))

\* The texts of an access token and of an account id.
TokenTexts == {<<>>, <<"at_plain">>, <<" ", "at_A">>, <<"at_B">>}
AccountTexts == {<<" ">>, <<"acct_X">>}
\* What the variables hold when the process starts.
StartTokenVars == {NoText, SomeText(<<" ">>), SomeText(<<"at_plain", " ">>)}
StartAccountVars == {NoText, SomeText(<<>>), SomeText(<<"acct_X">>)}

\* One call as the backend sees it: the error returned before any request,
\* or the headers of the one request sent.
AuthCall(resolved) ==
    [result |-> IF resolved.ok THEN "sent" ELSE resolved.err,
     status |-> resolved.status,
     requests |-> IF resolved.ok THEN 1 ELSE 0,
     authorization |-> resolved.access_token,
     chatgpt_account_id |-> resolved.account_id]

AuthContextInit ==
    /\ env_access_token \in StartTokenVars
    /\ env_account_id \in StartAccountVars
    /\ \E t \in TokenTexts, a \in {NoText} \cup {SomeText(x) : x \in AccountTexts} :
           driver = CodexDriver(t, a)
    /\ auth_calls = <<>>
    /\ DriversIdle
    /\ PkceIdle /\ ListenerIdle /\ RefreshIdle /\ ConvertIdle
    /\ SessionIdle /\ ProbeIdle

notAc == <<fbVars, adVars, pkVars, lsVars, rfVars, cvVars, ssVars, pbVars>>

\* apply_codex_auth_to_runtime (codex_oauth.rs 148-161), after a login, a
\* refresh or a status query.
apply_codex_auth_to_runtime ==
    /\ \E t \in TokenTexts, a \in {NoText} \cup {SomeText(x) : x \in AccountTexts} :
         /\ env_access_token' = SomeText(Trim(t))
         /\ env_account_id' = auth_account_id(t, a)
    /\ UNCHANGED <<driver, auth_calls>>
    /\ UNCHANGED notAc

\* clear_codex_auth_from_runtime (codex_oauth.rs 163-172), after a logout.
clear_codex_auth_from_runtime ==
    /\ env_access_token' = NoText
    /\ env_account_id' = NoText
    /\ UNCHANGED <<driver, auth_calls>>
    /\ UNCHANGED notAc

\* run_completion up to the request (codex.rs 492-530).
run_completion ==
    /\ Len(auth_calls) < MaxCalls
    /\ auth_calls' = Append(auth_calls,
           AuthCall(resolve_auth_context(driver, env_access_token, env_account_id)))
    /\ UNCHANGED <<env_access_token, env_account_id, driver>>
    /\ UNCHANGED notAc

AuthContextNext ==
    \/ apply_codex_auth_to_runtime
    \/ clear_codex_auth_from_runtime
    \/ run_completion

SpecAuthContext == AuthContextInit /\ [][AuthContextNext]_vars

\* The first text of the sequence that is not empty once trimmed; <<>> if none.
RECURSIVE FirstGiven(_)
FirstGiven(texts) ==
    IF texts = <<>> THEN <<>>
    ELSE IF Trim(Head(texts)) # <<>> THEN Trim(Head(texts))
    ELSE FirstGiven(Tail(texts))
\* The text of a variable or of an optional field, <<>> when it is not there.
TextOf(o) == IF o.some THEN o.v ELSE <<>>
\* The headers the precedence prescribes in the current state.
DueToken == FirstGiven(<<TextOf(env_access_token), driver.access_token>>)
DueAccount ==
    FirstGiven(<<TextOf(env_account_id), TextOf(driver.account_id),
                 TextOf(account_id_from_access_token(DueToken))>>)
\* A call is made in this step.
CallMade == Len(auth_calls') = Len(auth_calls) + 1
LastCall == auth_calls'[Len(auth_calls')]

\* C19: every Codex call resolves the credentials from the runtime variables
\* as they are at that call, then the values baked into the adapter, then
\* (account id only) the claim of the access token; an empty access token gives
\* MissingApiKey and an unresolvable account id gives Api with status 401, both
\* without any request.
C19_ResolvedPerCall ==
    /\ [][CallMade =>
            IF DueToken = <<>>
            THEN LastCall.result = "MissingApiKey" /\ LastCall.requests = 0
            ELSE IF DueAccount = <<>>
            THEN /\ LastCall.result = "Api" /\ LastCall.status = 401
                 /\ LastCall.requests = 0
            ELSE /\ LastCall.result = "sent" /\ LastCall.requests = 1
                 /\ LastCall.authorization = DueToken
                 /\ LastCall.chatgpt_account_id = DueAccount]_vars
    /\ [](\A k \in DOMAIN auth_calls :
            auth_calls[k].result # "sent" => auth_calls[k].requests = 0)

\* The first call used the baked token and its claim; after a login without
\* account id the second got 401; after another login the third used the
\* values of the variables.
C19_Witness ==
    /\ Len(auth_calls) = 3
    /\ auth_calls[1].result = "sent"
    /\ auth_calls[1].authorization = <<"at_A">>
    /\ auth_calls[1].chatgpt_account_id = <<"acct_A">>
    /\ auth_calls[2].result = "Api" /\ auth_calls[2].status = 401
    /\ auth_calls[3].result = "sent"
    /\ auth_calls[3].authorization = <<"at_plain">>
    /\ auth_calls[3].chatgpt_account_id = <<"acct_X">>


\* --------------------------------------------- Gemini: the retry loop

\* One complete or stream call on the Gemini adapter, every step of which
\* is eventually taken: each request is answered or fails, the body ends.
GeminiCallInit == Init /\ adapter = "gemini"
GeminiCallNext ==
    \/ GeminiSendFails \/ GeminiAttempt \/ GeminiCompleteBody \/ GeminiChunk
    \/ GeminiChunkError \/ GeminiFinish
SpecGeminiCall ==
    GeminiCallInit /\ [][GeminiCallNext]_vars /\ WF_vars(GeminiCallNext)

\* The POSTs of the call so far (gemini.rs 381-390, 461-470): one per pass of
\* the loop; in "start" the pass with index `attempt` has not sent its own.
Posts == IF pc = "start" THEN attempt ELSE attempt + 1

\* C20 (as stated): one Gemini call sends at most 3 requests, and it returns.
C20_ThreeAttemptCap ==
    /\ [](Posts <= 3)
    /\ <>(pc = "done")

\* C20 (amended): one Gemini call sends at most max_retries + 1 = 4 requests,
\* the first and at most 3 retries after 429 or 503, and it returns.
C20_ThreeRetryCap ==
    /\ [](Posts <= max_retries + 1)
    /\ <>(pc = "done")

\* The call has returned RateLimited or Overloaded after its fourth request.
C20_Witness ==
    /\ adapter = "gemini" /\ pc = "done" /\ Posts = max_retries + 1
    /\ ~result.ok /\ result.err.kind \in {"RateLimited", "Overloaded"}

\* What the last POST of the call met.
LastAnswer == answered[Len(answered)]
\* The call has returned the error e.
Failed(e) == pc = "done" /\ result = Err(e)

\* C21: a Gemini call ends with RateLimited (Overloaded) carrying 5000 ms only
\* when every allowed attempt met 429 or 503 and the last one met 429 (503);
\* any other status that is not 2xx ends the call at that attempt with Api and
\* that status; a POST that cannot be sent ends it at that attempt with Http.
C21_GeminiErrorClasses ==
    adapter = "gemini" =>
        /\ \A e \in {ErrRateLimited(5000), ErrOverloaded(5000)} :
              Failed(e) <=>
                  /\ Len(answered) = max_retries + 1
                  /\ \A k \in DOMAIN answered : Retryable(answered[k])
                  /\ LastAnswer = (IF e.kind = "RateLimited" THEN 429 ELSE 503)
        /\ (pc = "done" /\ ~result.ok /\ result.err.kind \in {"RateLimited", "Overloaded"})
              => result.err.retry_after_ms = 5000
        /\ \A k \in DOMAIN answered :
              (answered[k] # SendFailed /\ ~Retryable(answered[k])
                                        /\ ~IsSuccess(answered[k]))
                  => k = Len(answered) /\ Failed(ErrApi(answered[k]))
        /\ \A k \in DOMAIN answered :
              answered[k] = SendFailed => k = Len(answered) /\ Failed(ErrHttp)

\* Three 429 and a final 503 gave Overloaded, in a stream call.
C21_Witness ==
    /\ adapter = "gemini" /\ mode = "stream"
    /\ answered = <<429, 429, 429, 503>>
    /\ Failed(ErrOverloaded(5000))


\* ------------------------------ the persisted credential and its handlers

\* Option<StoredCodexAuth>: the credential file, the imported credential.
NoAuth == [some |-> FALSE]
SomeAuth(a) == [some |-> TRUE, v |-> a]

\* auth_account_id (codex_oauth.rs 235-246) of a whole record.
stored_auth_account_id(a) ==
    OptionOr(IF a.chatgpt_account_id # Absent /\ ~IsBlank(a.chatgpt_account_id)
             THEN a.chatgpt_account_id ELSE Absent,
             OptionOr(jwt_chatgpt_account_id(a.access_token),
                      IF a.id_token # NoJwt THEN jwt_chatgpt_account_id(a.id_token)
                      ELSE Absent,
                      Absent),
             Absent)

\* What the token endpoint answers to a refresh in these runs.
SessionResponses ==
    {TokenResponse(Jwt("", Absent, Absent, Absent), Absent, NoJwt, "", "", NoTime),
     TokenResponse(Jwt("at_plain", Absent, Absent, Absent), Absent, NoJwt, "", "", NoTime),
     TokenResponse(Jwt("at_plain", Absent, Absent, Absent), Absent,
                   Jwt("id_A", "acct_B", "client_A", Absent), "Bearer", "openid", 30),
     TokenResponse(Jwt("at_A", "acct_A", Absent, Absent), Absent, NoJwt, "", "", NoTime),
     TokenResponse(Jwt("at_B", "acct_B", Absent, "openid"), "rt_1", NoJwt, "Bearer", "openid",
                   3600)}

\* Faulty variant of RefreshResults: a refresh is requested without a refresh
\* token.
RefreshResultsNoTokenCheck(a, t) == {[ok |-> FALSE, auth |-> a, grants |-> 1]}
\* refresh_auth_if_possible (codex_oauth.rs 706-721) at time t: every way it
\* can end, with the number of refresh_access_token calls it made.
RefreshResults(a, t) ==
    IF a.refresh_token = Absent THEN {[ok |-> FALSE, auth |-> a, grants |-> 0]}
    ELSE {[ok |-> FALSE, auth |-> a, grants |-> 1]}
         \cup {LET updated == update_auth_from_token(a, r, "refresh_token", t)
               IN [ok |-> TRUE,
                   auth |-> IF updated.client_id = Absent
                            THEN [updated EXCEPT !.client_id =
                                     auth_client_id(a, "fallback_client_id")]
                            ELSE updated,
                   grants |-> 1] : r \in SessionResponses}

\* ensure_access_token_for_auth (codex_oauth.rs 723-759) at time t: every way
\* it can end.
ensure_access_token_for_auth(a, t) ==
    LET Fill(x) == hydrate_scope_from_tokens(
                       IF x.chatgpt_account_id = Absent
                       THEN [x EXCEPT !.chatgpt_account_id = stored_auth_account_id(x)]
                       ELSE x)
        Checked(x, grants) ==
            [ok |-> Fill(x).chatgpt_account_id # Absent, err |-> "missing_org_context",
             auth |-> Fill(x), grants |-> grants]
    IN IF ~IsBlank(a.access_token.id)
       THEN IF Fill(a).chatgpt_account_id # Absent
            THEN {[ok |-> TRUE, err |-> "", auth |-> Fill(a), grants |-> 0]}
            ELSE {Checked(r.auth, r.grants) : r \in RefreshResults(Fill(a), t)}
       ELSE {IF r.ok /\ ~IsBlank(r.auth.access_token.id)
             THEN Checked(r.auth, r.grants)
             ELSE [ok |-> FALSE, err |-> "missing_access_token", auth |-> r.auth,
                   grants |-> r.grants] : r \in RefreshResults(a, t)}

\* After ensure: the account id and the client id are fixed in the record
\* (codex_oauth.rs 1013-1016, 1094-1097, 1129-1132, 1174-1177, 1230-1233).
Settle(a, fallback_client_id) ==
    LET b == [a EXCEPT !.chatgpt_account_id = stored_auth_account_id(a)]
    IN IF b.client_id = Absent THEN [b EXCEPT !.client_id = fallback_client_id] ELSE b

\* What apply_codex_auth_to_runtime (codex_oauth.rs 148-161) leaves in the
\* two variables, and what clear_codex_auth_from_runtime (163-172) leaves.
Env(access_token, account_id) == [access_token |-> access_token, account_id |-> account_id]
AppliedEnv(a) ==
    Env(SomeText(IF IsBlank(a.access_token.id) THEN <<>> ELSE <<a.access_token.id>>),
        IF stored_auth_account_id(a) = Absent THEN NoText
        ELSE SomeText(<<stored_auth_account_id(a)>>))
\* Faulty variant of ClearedEnv: the account id stays.
ClearedEnvKeepsAccount == Env(NoText, SomeText(<<"acct_X">>))
ClearedEnv == Env(NoText, NoText)

\* One handler invocation: the handler, its response, the record it read, the
\* record it held when it decided on the proactive refresh, whether it made
\* one, the refresh_access_token calls it made, the record it ended with,
\* whether that record was written to the file, and the handler that was
\* invoked before it.
Invocation(op, resp, first, seen, proactive, grants, a, saved) ==
    [op |-> op, resp |-> resp, first |-> first, seen |-> seen,
     proactive |-> proactive, grants |-> grants, auth |-> a, saved |-> saved,
     after |-> ""]
\* What an invocation leaves: the file, the variables, its record.
Left(file, env, inv) == [file |-> file, env |-> env, inv |-> inv]

\* Faulty variant of should_refresh: the expiry is not looked at.
ShouldRefreshAnyExpiry(a, t) == a.refresh_token # Absent
\* should_refresh (codex_oauth.rs 1202-1207) at time t.
should_refresh(a, t) ==
    /\ a.expires_at # NoTime /\ a.expires_at <= t + 60
    /\ a.refresh_token # Absent

\* codex_oauth_status from the proactive refresh on (codex_oauth.rs 1201-1251),
\* holding record a, with the file and the variables as they are by then.
StatusTail(a, first, grants0, file, env, t) ==
    UNION {UNION {
        IF ~e.ok
        THEN {Left(file, ClearedEnv,
                   Invocation("status", "not_connected", SomeAuth(first), SomeAuth(a), should_refresh(a, t),
                              grants0 + p.grants + e.grants, SomeAuth(e.auth), FALSE))}
        ELSE {Left(IF saved THEN SomeAuth(Settle(e.auth, "fallback_client_id")) ELSE file,
                   AppliedEnv(Settle(e.auth, "fallback_client_id")),
                   Invocation("status", "connected", SomeAuth(first), SomeAuth(a), should_refresh(a, t),
                              grants0 + p.grants + e.grants,
                              SomeAuth(Settle(e.auth, "fallback_client_id")), saved))
                : saved \in BOOLEAN}
        : e \in ensure_access_token_for_auth(p.auth, t)}
      : p \in IF should_refresh(a, t) THEN RefreshResults(a, t)
              ELSE {[ok |-> FALSE, auth |-> a, grants |-> 0]}}

\* codex_oauth_status (codex_oauth.rs 1152-1252) at time t.
StatusOutcomes(file, cli, env, t) ==
    IF file.some THEN StatusTail(file.v, file.v, 0, file, env, t)
    ELSE IF ~cli.some
    THEN {Left(file, env, Invocation("status", "not_connected", NoAuth, NoAuth, FALSE, 0,
                                     NoAuth, FALSE))}
    ELSE UNION {
        IF ~e.ok
        THEN {Left(file, ClearedEnv,
                   Invocation("status", "not_connected", cli, NoAuth, FALSE, e.grants,
                              SomeAuth(e.auth), FALSE))}
        ELSE UNION {StatusTail(Settle(e.auth, "fallback_client_id"), cli.v, e.grants,
                               IF saved THEN SomeAuth(Settle(e.auth, "fallback_client_id"))
                               ELSE file,
                               IF saved THEN env ELSE ClearedEnv, t)
                      : saved \in BOOLEAN}
        : e \in ensure_access_token_for_auth(cli.v, t)}

\* The part callback, paste-code and CLI import share (codex_oauth.rs
\* 1008-1033, 1089-1109, 1123-1142): ensure, settle, save, apply.
ConnectOutcomes(op, a, client_id, file, env, t) ==
    UNION {
        IF ~e.ok
        THEN {Left(file, env, Invocation(op, "error", SomeAuth(a), NoAuth, FALSE, e.grants,
                                         SomeAuth(e.auth), FALSE))}
        ELSE {IF saved
              THEN Left(SomeAuth(Settle(e.auth, client_id)),
                        AppliedEnv(Settle(e.auth, client_id)),
                        Invocation(op, "connected", SomeAuth(a), NoAuth, FALSE, e.grants,
                                   SomeAuth(Settle(e.auth, client_id)), TRUE))
              ELSE Left(file, env, Invocation(op, "error", SomeAuth(a), NoAuth, FALSE, e.grants,
                                              SomeAuth(Settle(e.auth, client_id)), FALSE))
                : saved \in BOOLEAN}
        : e \in ensure_access_token_for_auth(a, t)}

\* exchange_code once the token endpoint has answered tok (codex_oauth.rs
\* 604-633), at time t.
exchange_code(tok, client_id, source, t) ==
    StoredCodexAuth(
        OptionOr(jwt_chatgpt_account_id(tok.access_token),
                 IF tok.id_token # NoJwt THEN jwt_chatgpt_account_id(tok.id_token)
                 ELSE Absent, Absent),
        tok.access_token, tok.refresh_token, tok.id_token,
        IF tok.token_type = "" THEN "Bearer" ELSE tok.token_type,
        tok.scope,
        OptionOr(IF tok.id_token # NoJwt THEN jwt_client_id_from_id_token(tok.id_token)
                 ELSE Absent, client_id, Absent),
        t, IF tok.expires_in = NoTime THEN NoTime ELSE t + tok.expires_in, source)

\* The records a credential file holds when the process starts; expires_at
\* is none, 60 s or 61 s after the start.
SessionAuths ==
    {StoredCodexAuth(Absent, at, x[1], NoJwt, "Bearer", "", "client_0", 0, x[2], "pkce_callback") :
        at \in {Jwt("", Absent, Absent, Absent), Jwt("at_plain", Absent, Absent, Absent),
                Jwt("at_A", "acct_A", Absent, Absent)},
        x \in {<<Absent, NoTime>>, <<Absent, 60>>, <<"rt_0", NoTime>>, <<"rt_0", 60>>,
                <<"rt_0", 61>>}}
\* What import_codex_cli_auth (codex_oauth.rs 799-881) returns: an error, or a
\* record with a non-empty access token.
CliAuths ==
    {StoredCodexAuth(jwt_chatgpt_account_id(x[1]), x[1], x[2], NoJwt, "Bearer", "", Absent,
                     0, NoTime, "codex_cli_import") :
        x \in {<<Jwt("at_plain", Absent, Absent, Absent), "rt_0">>,
                <<Jwt("at_A", "acct_A", Absent, Absent), Absent>>}}
\* What the token endpoint answers to an authorization_code grant.
ExchangeResponses ==
    {r \in TokenResponses : /\ r.id_token = NoJwt /\ r.expires_in = NoTime
                            /\ r.access_token.id # "at_B"
                            /\ r.refresh_token # Absent \/ r.access_token.id = "at_plain"}

SessionInit ==
    /\ auth_file \in {NoAuth} \cup {SomeAuth(a) : a \in SessionAuths}
    /\ cli_auth \in {NoAuth} \cup {SomeAuth(a) : a \in CliAuths}
    /\ \E e \in {ClearedEnv, Env(SomeText(<<"at_plain">>), SomeText(<<"acct_X">>))} :
          env_access_token = e.access_token /\ env_account_id = e.account_id
    /\ session = <<>>
    /\ driver = <<>> /\ auth_calls = <<>>
    /\ DriversIdle
    /\ PkceIdle /\ ListenerIdle /\ RefreshIdle /\ ConvertIdle /\ ProbeIdle

notSs == <<fbVars, adVars, pkVars, lsVars, rfVars, cvVars, pbVars, driver, auth_calls>>

\* The invocation ends as `left` says.
Leave(left) ==
    /\ auth_file' = left.file
    /\ env_access_token' = left.env.access_token
    /\ env_account_id' = left.env.account_id
    /\ session' = <<[left.inv EXCEPT !.after = IF session = <<>> THEN "" ELSE session[1].op]>>
    /\ UNCHANGED cli_auth
    /\ UNCHANGED notSs

\* codex_oauth_status (codex_oauth.rs 1152-1252).
codex_oauth_status ==
    \E left \in StatusOutcomes(auth_file, cli_auth,
                               Env(env_access_token, env_account_id), num_seconds(now)) :
        Leave(left)

\* codex_oauth_logout (codex_oauth.rs 1254-1263).
codex_oauth_logout ==
    Leave(Left(NoAuth, ClearedEnv,
               Invocation("logout", "logged_out", auth_file, NoAuth, FALSE, 0, NoAuth, FALSE)))

\* codex_oauth_import_cli (codex_oauth.rs 1118-1150).
codex_oauth_import_cli ==
    IF cli_auth.some
    THEN \E left \in ConnectOutcomes("import_cli", cli_auth.v, "fallback_client_id",
                                     auth_file, Env(env_access_token, env_account_id),
                                     num_seconds(now)) : Leave(left)
    ELSE Leave(Left(auth_file, Env(env_access_token, env_account_id),
                    Invocation("import_cli", "error", NoAuth, NoAuth, FALSE, 0, NoAuth, FALSE)))

\* codex_oauth_callback and codex_oauth_paste_code once exchange_code has
\* returned Ok (codex_oauth.rs 1007-1033, 1088-1109).
AfterExchange(op) ==
    \E tok \in ExchangeResponses :
        \E left \in ConnectOutcomes(op,
                        exchange_code(tok, "client_0",
                                      IF op = "callback" THEN "pkce_callback"
                                      ELSE "pkce_manual_code", num_seconds(now)),
                        "client_0", auth_file, Env(env_access_token, env_account_id),
                        num_seconds(now)) : Leave(left)

SessionNext ==
    \/ codex_oauth_status
    \/ codex_oauth_logout
    \/ codex_oauth_import_cli
    \/ AfterExchange("callback")
    \/ AfterExchange("paste_code")

SpecSession == SessionInit /\ [][SessionNext]_vars


\* --------------------- the persisted credential and its handlers: claims

\* The last invocation, and the two variables.
Inv == session[1]
RuntimeEnv == Env(env_access_token, env_account_id)
Did(op) == session # <<>> /\ Inv.op = op

C23_StatusSelfHealing ==
    Did("status") =>
        /\ Inv.resp = "connected" =>
              /\ env_access_token.some /\ env_access_token.v # <<>>
              /\ env_access_token.v = <<Inv.auth.v.access_token.id>>
              /\ env_account_id.some
              /\ env_account_id.v = <<Inv.auth.v.chatgpt_account_id>>
              /\ auth_file = Inv.auth
        /\ Inv.resp = "not_connected" => RuntimeEnv = Env(NoText, NoText)

\* The record expires within 60 s of the start of the run.
Expiring(a) == a.expires_at # NoTime /\ a.expires_at <= 60
\* C24: a status check refreshes proactively exactly when the record it holds
\* expires within 60 s and has a refresh token; a stored record that does not
\* expire within 60 s, has an access token and a resolvable account id makes
\* the check issue no refresh request at all.
C24_ProactiveRefresh ==
    (Did("status") /\ Inv.seen.some) =>
        /\ Inv.proactive <=> (Expiring(Inv.seen.v) /\ Inv.seen.v.refresh_token # Absent)
        /\ Inv.proactive => Inv.grants >= 1
        /\ (/\ ~Expiring(Inv.first.v)
            /\ ~IsBlank(Inv.first.v.access_token.id)
            /\ stored_auth_account_id(Inv.first.v) # Absent) => Inv.grants = 0

\* A record with a refresh token that expires in exactly 60 s was refreshed;
\* the check reports connected.
C24_Witness ==
    /\ Did("status") /\ Inv.seen.some /\ Inv.seen = Inv.first
    /\ Inv.seen.v.expires_at = 60 /\ Inv.proactive /\ Inv.grants = 1
    /\ Inv.resp = "connected" /\ Inv.auth.v.access_token.id = "at_B"

Handlers25 == {"callback", "paste_code", "import_cli", "status"}
\* C25 (as stated): a callback, paste-code, CLI import or status invocation
\* makes at most one refresh, and none when the record it works on has no
\* refresh token.
C25_OneRefreshPerInvocation ==
    (session # <<>> /\ Inv.op \in Handlers25) =>
        /\ Inv.grants <= 1
        /\ (Inv.first.some /\ Inv.first.v.refresh_token = Absent) => Inv.grants = 0

\* C25 (amended): callback, paste-code and CLI import make at most one
\* refresh (one call of refresh_access_token) per invocation; a status check
\* makes at most one per call of ensure_access_token_for_auth and one more
\* when it refreshes proactively; none is made when the record has no refresh
\* token.
C25_OneRefreshPerEnsure ==
    (session # <<>> /\ Inv.op \in Handlers25) =>
        /\ Inv.op # "status" => Inv.grants <= 1
        /\ Inv.op = "status" =>
              Inv.grants <= (IF Inv.proactive THEN 1 ELSE 0)
                            + (IF Inv.first.some /\ Inv.first.v.source = "codex_cli_import"
                               THEN 2 ELSE 1)
        /\ (Inv.first.some /\ Inv.first.v.refresh_token = Absent) => Inv.grants = 0

\* A status check refreshed proactively, found no account id, refreshed once
\* more and failed.
C25_Witness ==
    /\ Did("status") /\ Inv.grants = 2 /\ Inv.proactive
    /\ Inv.resp = "not_connected" /\ Inv.auth.v.chatgpt_account_id = Absent


\* ------------------------------------------- calls of the token endpoint

\* A URL as its host and its path; DEFAULT_TOKEN_URL and FALLBACK_TOKEN_URL
\* (codex_oauth.rs 22-23).
Url(host, path) == <<host, path>>
DEFAULT_TOKEN_URL == Url("auth.openai.com", "/oauth/token")
FALLBACK_TOKEN_URL == Url("auth0.openai.com", "/oauth/token")

\* OPENAI_OAUTH_TOKEN_URL: unset, or a text that is blank, or that url::Url
\* parses to a host and a path, or that it does not parse.
UrlUnset == [some |-> FALSE]
UrlText(blank, parses, host, path) ==
    [some |-> TRUE, blank |-> blank, parses |-> parses, host |-> host, path |-> path]
TokenUrlEnvs ==
    {UrlUnset,
     UrlText(TRUE, FALSE, "", ""),
     UrlText(FALSE, TRUE, "auth.openai.com", "/token"),
     UrlText(FALSE, TRUE, "idp.example", "/token"),
     UrlText(FALSE, FALSE, "not a url", "")}

\* oauth_token_urls (codex_oauth.rs 423-440).
oauth_token_urls(env) ==
    IF env.some /\ ~env.blank
    THEN IF env.parses /\ env.host = "auth.openai.com" /\ env.path = "/token"
         THEN <<Url(env.host, "/oauth/token")>>
         ELSE <<Url(env.host, env.path)>>
    ELSE <<DEFAULT_TOKEN_URL, FALLBACK_TOKEN_URL>>

\* What one POST to a token endpoint meets: the request fails, or a status
\* that is not a success, or a success whose body is not a TokenResponse, or
\* a success with a TokenResponse.
TokenAnswers == {"request failed", "400", "401", "500", "parse failed", "token"}
Grants == {"authorization_code", "refresh_token"}

\* One entry of `errors`: the endpoint and the reason
\* (codex_oauth.rs 574, 582, 592; 657, 665).
EndpointError(url, why) == [url |-> url, why |-> why]
NoUrl == Url("", "")

\* The state of a call: still in the loop, or returned.
InLoop == [done |-> FALSE]
Returned(ok, head, reasons) ==
    [done |-> TRUE, ok |-> ok, head |-> head, reasons |-> reasons]

\* One call of exchange_code or refresh_access_token: the grant, the variable,
\* the endpoints, the POSTs sent so far, `errors`, and the result.
TokenCall(grant, env) ==
    [grant |-> grant, env |-> env, urls |-> oauth_token_urls(env),
     posts |-> <<>>, errors |-> <<>>, result |-> InLoop]

\* The end of the loop of exchange_code (codex_oauth.rs 597-602) and of
\* refresh_access_token (674-677): every endpoint failed.
AllFailed(grant, errors) ==
    Returned(FALSE,
             IF grant = "authorization_code"
             THEN "Token exchange failed on all token endpoints"
             ELSE "Refresh failed on all token endpoints",
             errors)

\* One pass of the loop of exchange_code (codex_oauth.rs 558-595) or of
\* refresh_access_token (643-672) on the next endpoint, which gives `answer`.
TokenLoopPass(c, answer) ==
    LET url == c.urls[Len(c.posts) + 1]
        posted == Append(c.posts, [url |-> url, answer |-> answer])
        last == Len(posted) = Len(c.urls)
        pushed == Append(c.errors, EndpointError(url, answer))
        Continue == [c EXCEPT !.posts = posted, !.errors = pushed,
                               !.result = IF last THEN AllFailed(c.grant, pushed)
                                          ELSE InLoop]
    IN CASE answer = "token" ->
               [c EXCEPT !.posts = posted, !.result = Returned(TRUE, "", <<>>)]
         [] answer = "parse failed" /\ c.grant = "refresh_token" ->
               [c EXCEPT !.posts = posted,
                         !.result = Returned(FALSE, "Refresh response parse failed",
                                             <<EndpointError(NoUrl, answer)>>)]
         [] OTHER -> Continue

TokenCallInit == DriversIdle /\ OAuthIdle
notPb == <<fbVars, adVars, pkVars, lsVars, rfVars, cvVars, acVars, ssVars>>

\* exchange_code or refresh_access_token is called.
TokenCallBegin(grant, env) ==
    /\ probe = <<>>
    /\ probe' = <<TokenCall(grant, env)>>
    /\ UNCHANGED notPb

\* The call sends its next POST and acts on the answer.
TokenCallPost(answer) ==
    /\ probe # <<>> /\ ~probe[1].result.done
    /\ probe' = <<TokenLoopPass(probe[1], answer)>>
    /\ UNCHANGED notPb

TokenCallNext ==
    \/ \E grant \in Grants, env \in TokenUrlEnvs : TokenCallBegin(grant, env)
    \/ \E answer \in TokenAnswers : TokenCallPost(answer)

SpecTokenCall == TokenCallInit /\ [][TokenCallNext]_vars

\* C26: the endpoints are tried in the order primary, fallback; an endpoint
\* is tried only if every one before it failed; the error of a failed call
\* holds the reason of every POST that was sent.
C26_EndpointFallback ==
    probe # <<>> =>
        LET c == probe[1]
        IN /\ \A i \in 1..Len(c.posts) :
                 /\ c.posts[i].url = c.urls[i]
                 /\ i > 1 => c.posts[i - 1].answer # "token"
           /\ (c.env = UrlUnset /\ c.posts # <<>>) => c.posts[1].url = DEFAULT_TOKEN_URL
           /\ (c.result.done /\ ~c.result.ok) =>
                 \A i \in 1..Len(c.posts) :
                     \E j \in 1..Len(c.result.reasons) :
                         c.result.reasons[j].why = c.posts[i].answer


\* ------------------------------------------ LlmDriver::stream, the default

\* A call of the default stream has returned.
DefaultReturned == adapter = "default" /\ pc = "done"

\* C27 (as stated): the default stream calls complete once; on Ok it has sent
\* one TextDelta with the whole text and then one ContentComplete with the
\* stop reason and usage of the response, and returns that response; on Err
\* it has sent nothing and returns the error.
C27_DefaultStreamPair ==
    DefaultReturned =>
        /\ Len(answered) = 1 /\ result = answered[1]
        /\ result.ok =>
              tx = <<TextDelta(ResponseText(result.resp)),
                     ContentComplete(result.resp.stop_reason, result.resp.usage)>>
        /\ ~result.ok => tx = <<>>

\* C27 (amended): as above, except that the TextDelta is sent only when the
\* text of the response is not empty; a response without text is announced
\* by the ContentComplete alone.
C27_DefaultStreamEvents ==
    DefaultReturned =>
        /\ Len(answered) = 1 /\ result = answered[1]
        /\ (result.ok /\ ResponseText(result.resp) # <<>>) =>
              tx = <<TextDelta(ResponseText(result.resp)),
                     ContentComplete(result.resp.stop_reason, result.resp.usage)>>
        /\ (result.ok /\ ResponseText(result.resp) = <<>>) =>
              tx = <<ContentComplete(result.resp.stop_reason, result.resp.usage)>>
        /\ ~result.ok => tx = <<>>

\* The default stream returned a response that is one tool call and no text.
C27_Witness ==
    /\ DefaultReturned /\ result.ok
    /\ ResponseText(result.resp) = <<>> /\ result.resp.stop_reason = "ToolUse"
    /\ Len(tx) = 1


\* -------------------------------------------- start-login: the client id

\* Most start-login requests in one run.
MaxStarts == 2

\* codex_oauth.rs 24.  A text is its sequence of tokens; " " is white space
\* and "/" a character that a URL query escapes.
DEFAULT_CLIENT_ID == <<"app_EMoamEEZ73f0CkXaXp7hrann">>

\* url_encode (codex_oauth.rs 543-545), form_urlencoded::byte_serialize.
url_encode(t) ==
    [i \in DOMAIN t |-> CASE t[i] = " " -> "+" [] t[i] = "/" -> "%2F" [] OTHER -> t[i]]

\* req.client_id, OPENAI_OAUTH_CLIENT_ID, and what
\* infer_client_id_from_codex_auth (codex_oauth.rs 376-391) reads from the
\* id token of ~/.codex/auth.json: a trimmed non-empty aud, or nothing.
RequestClientIds == {NoText, SomeText(<<>>), SomeText(<<" ">>), SomeText(<<"client/R", " ">>)}
EnvClientIds == {NoText, SomeText(<<>>), SomeText(<<"client_E">>)}
InferredClientIds == {NoText, SomeText(<<"client_C">>)}

\* Faulty variant of oauth_client_id: the variable is not read.
oauth_client_id_without_env(req, env, inferred) ==
    IF req.some /\ Trim(req.v) # <<>> THEN req.v
    ELSE OrText(inferred, SomeText(DEFAULT_CLIENT_ID)).v
\* oauth_client_id (codex_oauth.rs 393-400).
oauth_client_id(req, env, inferred) ==
    IF req.some /\ Trim(req.v) # <<>> THEN req.v
    ELSE OrText(env, OrText(inferred, SomeText(DEFAULT_CLIENT_ID))).v

\* The query of the authorization URL (codex_oauth.rs 913-923), the
\* parameters that depend on the request.
AuthUrl(client_id, state_token) ==
    [client_id |-> url_encode(client_id), state |-> url_encode(<<state_token>>)]
NoAuthUrl == [client_id |-> <<>>, state |-> <<>>]

\* What a start-login was given and what it answered.
StartLogin(req, env, inferred, status, auth_url, state_token, client_id) ==
    [req |-> req, env |-> env, inferred |-> inferred, status |-> status,
     auth_url |-> auth_url, state |-> state_token, client_id |-> client_id]

StartLoginInit == DriversIdle /\ OAuthIdle
notSl == <<fbVars, adVars, lsVars, rfVars, cvVars, acVars, ssVars,
           now, ticks, handlers, exchanges>>

\* codex_oauth_start (codex_oauth.rs 883-936): the listener cannot be
\* ensured and the request is answered 400, or the entry is stored and the
\* URL returned.
codex_oauth_start(req, env, inferred) ==
    /\ issued < MaxStarts
    /\ LET cleaned == cleanup_stale_pkce(PENDING_PKCE, now)
           client_id == oauth_client_id(req, env, inferred)
           state_token == random_state(issued + 1)
           entry == PendingPkce(generate_pkce_verifier(issued + 1), "redirect_uri",
                                client_id, now)
       IN \/ /\ PENDING_PKCE' = cleaned
             /\ issued' = issued
             /\ probe' = <<StartLogin(req, env, inferred, 400, NoAuthUrl, "", <<>>)>>
          \/ /\ PENDING_PKCE' = MapInsert(cleaned, state_token, entry)
             /\ issued' = issued + 1
             /\ probe' = <<StartLogin(req, env, inferred, 200,
                                      AuthUrl(client_id, state_token), state_token,
                                      client_id)>>
    /\ UNCHANGED notSl

StartLoginNext ==
    \E req \in RequestClientIds, env \in EnvClientIds, inferred \in InferredClientIds :
        codex_oauth_start(req, env, inferred)

SpecStartLogin == StartLoginInit /\ [][StartLoginNext]_vars

\* The last start-login, answered 200.
Started == probe # <<>> /\ probe[1].status = 200
Overridden(o) == o.some /\ Trim(o.v) # <<>>
\* The client id a start-login answered with is in the URL, and the state
\* token it returned is in the pending store with that client id.
Carries(client_id) ==
    /\ probe[1].client_id = client_id
    /\ probe[1].auth_url.client_id = url_encode(client_id)
    /\ probe[1].state \in DOMAIN PENDING_PKCE
    /\ PENDING_PKCE[probe[1].state].client_id = client_id

\* C28 (as stated): the client id is the request's if that is not blank, else
\* the variable's, else the built-in default; with neither, the URL carries
\* the default and the returned state is stored with it.
C28_ClientIdPrecedence ==
    Started =>
        LET s == probe[1]
        IN /\ Carries(IF Overridden(s.req) THEN s.req.v
                      ELSE IF s.env.some THEN s.env.v ELSE DEFAULT_CLIENT_ID)
           /\ (~Overridden(s.req) /\ ~s.env.some) =>
                 s.auth_url.client_id = DEFAULT_CLIENT_ID

\* C28 (amended): between the variable and the default comes the client id
\* inferred from the Codex CLI's id token; the default is used when that is
\* missing too.
C28_ClientIdPrecedenceInferred ==
    Started =>
        LET s == probe[1]
        IN /\ Carries(IF Overridden(s.req) THEN s.req.v
                      ELSE IF s.env.some THEN s.env.v
                      ELSE IF s.inferred.some THEN s.inferred.v
                      ELSE DEFAULT_CLIENT_ID)
           /\ (~Overridden(s.req) /\ ~s.env.some /\ ~s.inferred.some) =>
                 s.auth_url.client_id = DEFAULT_CLIENT_ID

\* A start-login with a blank override, no variable and no Codex CLI file
\* returned the default client id and stored it.
C28_Witness ==
    /\ Started /\ probe[1].req = SomeText(<<" ">>)
    /\ ~probe[1].env.some /\ ~probe[1].inferred.some
    /\ probe[1].auth_url.client_id = DEFAULT_CLIENT_ID
    /\ PENDING_PKCE[probe[1].state].client_id = DEFAULT_CLIENT_ID


\* ------------------------------------------------- reading a JWT's claims

\* A JSON value: its type, its text when a string, its elements when an
\* array, and its "aud" member when an object that has one.
JsonValue(t, text, items, aud) == [t |-> t, text |-> text, items |-> items, aud |-> aud]
JsonString(text) == JsonValue("string", text, <<>>, <<>>)
JsonNumber == JsonValue("number", <<>>, <<>>, <<>>)
JsonArray(items) == JsonValue("array", <<>>, items, <<>>)
\* An object with the members given: <<>> or <<aud>>.
JsonObject(aud) == JsonValue("object", <<>>, <<>>, aud)

\* Option<Value>, Option<String>.
NoValue == [some |-> FALSE]
SomeValue(v) == [some |-> TRUE, v |-> v]

\* One dot-separated segment of a token: how it is encoded (URL-safe base64
\* without padding, with padding, or not URL-safe base64 at all) and the
\* bytes it encodes: a JSON text and its value, or no JSON text.
Segment(enc, is_json, value) == [enc |-> enc, is_json |-> is_json, value |-> value]
OpaqueSegment == Segment("nopad", FALSE, JsonNumber)

\* URL_SAFE_NO_PAD.decode(..).ok().or_else(|| URL_SAFE.decode(..).ok())
\* (codex_oauth.rs 179-184, codex.rs 53-60).
base64_url_decode(seg) ==
    IF seg.enc = "nopad" THEN SomeValue(seg)
    ELSE IF seg.enc = "padded" THEN SomeValue(seg)
    ELSE NoValue

\* Faulty variant of parse_jwt_payload: the first segment is read.
parse_jwt_payload_first_segment(jwt) ==
    IF jwt = <<>> \/ ~jwt[1].is_json THEN NoValue ELSE SomeValue(jwt[1].value)
\* parse_jwt_payload (codex_oauth.rs 174-186, codex.rs 48-62); jwt is the
\* result of split('.').
parse_jwt_payload(jwt) ==
    IF Len(jwt) < 2 THEN NoValue
    ELSE LET payload == base64_url_decode(jwt[2])
         IN IF ~payload.some THEN NoValue
            ELSE IF ~payload.v.is_json THEN NoValue
            ELSE SomeValue(payload.v.value)

RECURSIVE FirstClientId(_)
\* The loop over an array aud (codex_oauth.rs 197-206).
FirstClientId(arr) ==
    IF arr = <<>> THEN NoValue
    ELSE IF Head(arr).t = "string" /\ Trim(Head(arr).text) # <<>>
         THEN SomeValue(Trim(Head(arr).text))
         ELSE FirstClientId(Tail(arr))

\* jwt_client_id_from_id_token (codex_oauth.rs 188-208) on the split token.
jwt_client_id(id_token) ==
    LET payload == parse_jwt_payload(id_token)
    IN IF ~payload.some THEN NoValue
       ELSE IF payload.v.t # "object" \/ payload.v.aud = <<>> THEN NoValue
       ELSE LET aud == payload.v.aud[1]
            IN IF aud.t = "string" /\ Trim(aud.text) # <<>>
               THEN SomeValue(Trim(aud.text))
               ELSE IF aud.t = "array" THEN FirstClientId(aud.items)
               ELSE NoValue

\* The payloads and the tokens drawn.
AudValues ==
    {JsonString(<<"client_A">>), JsonString(<<" ", "client_A", " ">>), JsonString(<<>>),
     JsonString(<<" ">>), JsonNumber, JsonArray(<<>>),
     JsonArray(<<JsonString(<<" ">>), JsonNumber, JsonString(<<"c1">>), JsonString(<<"c2">>)>>),
     JsonArray(<<JsonString(<<" ", "c1">>)>>),
     JsonArray(<<JsonNumber, JsonString(<<>>)>>)}
Payloads ==
    {JsonObject(<<>>), JsonNumber, JsonString(<<"client_A">>)}
    \cup {JsonObject(<<aud>>) : aud \in AudValues}
PayloadSegments ==
    {Segment(enc, TRUE, v) : enc \in {"nopad", "padded", "invalid"}, v \in Payloads}
    \cup {Segment(enc, FALSE, JsonNumber) : enc \in {"nopad", "padded", "invalid"}}
JwtTexts ==
    {<<OpaqueSegment>>}
    \cup {<<OpaqueSegment, seg>> : seg \in PayloadSegments}
    \cup {<<OpaqueSegment, seg, OpaqueSegment>> : seg \in PayloadSegments}

\* A token that was read: where, the token, the payload and the client id.
JwtRead(site, jwt, payload, client_id) ==
    [site |-> site, jwt |-> jwt, payload |-> payload, client_id |-> client_id]

JwtInit == DriversIdle /\ OAuthIdle

\* The API reads the client id of an id token (codex_oauth.rs 188-208).
ReadClientId(jwt) ==
    /\ probe = <<>>
    /\ probe' = <<JwtRead("codex_oauth", jwt, parse_jwt_payload(jwt), jwt_client_id(jwt))>>
    /\ UNCHANGED notPb

\* The Codex adapter reads the payload of an access token (codex.rs 48-62).
ReadPayload(jwt) ==
    /\ probe = <<>>
    /\ probe' = <<JwtRead("codex", jwt, parse_jwt_payload(jwt), NoValue)>>
    /\ UNCHANGED notPb

JwtNext == \E jwt \in JwtTexts : ReadClientId(jwt) \/ ReadPayload(jwt)

SpecJwt == JwtInit /\ [][JwtNext]_vars

\* The token has no second segment, or one that is not URL-safe base64 of a
\* JSON text.
Malformed(jwt) ==
    \/ Len(jwt) < 2
    \/ jwt[2].enc \notin {"nopad", "padded"}
    \/ ~jwt[2].is_json
\* The aud member of the payload of a well-formed token, if any.
AudOf(jwt) ==
    IF ~Malformed(jwt) /\ jwt[2].value.t = "object" /\ jwt[2].value.aud # <<>>
    THEN SomeValue(jwt[2].value.aud[1]) ELSE NoValue
\* The positions of an array whose element is a string that is not blank.
Named(items) == {i \in DOMAIN items : items[i].t = "string" /\ Trim(items[i].text) # <<>>}
FirstNamed(items) == CHOOSE i \in Named(items) : \A j \in Named(items) : i <= j

\* C29 (as stated): a malformed token yields nothing; an array aud yields its
\* first element that is a non-blank string; a string aud yields that string.
C29_JwtExtraction ==
    probe # <<>> =>
        LET r == probe[1]
            aud == AudOf(r.jwt)
        IN /\ Malformed(r.jwt) => (~r.payload.some /\ ~r.client_id.some)
           /\ (r.site = "codex_oauth" /\ aud.some /\ aud.v.t = "array"
                 /\ Named(aud.v.items) # {}) =>
                 r.client_id = SomeValue(aud.v.items[FirstNamed(aud.v.items)].text)
           /\ (r.site = "codex_oauth" /\ aud.some /\ aud.v.t = "string") =>
                 r.client_id = SomeValue(aud.v.text)

\* C29 (amended): a malformed token yields nothing; an array aud yields its
\* first element that is a non-blank string, trimmed, and nothing when it
\* has none; a string aud yields that string trimmed, and nothing when it
\* is blank; any other payload yields nothing.
C29_JwtExtractionTrimmed ==
    probe # <<>> =>
        LET r == probe[1]
            aud == AudOf(r.jwt)
        IN /\ Malformed(r.jwt) => (~r.payload.some /\ ~r.client_id.some)
           /\ ~Malformed(r.jwt) => r.payload = SomeValue(r.jwt[2].value)
           /\ r.site = "codex_oauth" =>
                 r.client_id =
                    IF aud.some /\ aud.v.t = "array" /\ Named(aud.v.items) # {}
                    THEN SomeValue(Trim(aud.v.items[FirstNamed(aud.v.items)].text))
                    ELSE IF aud.some /\ aud.v.t = "string" /\ Trim(aud.v.text) # <<>>
                    THEN SomeValue(Trim(aud.v.text))
                    ELSE NoValue

\* The client id was read from a padded payload whose aud is an array with
\* a blank string and a number before the first name.
C29_Witness ==
    /\ probe # <<>> /\ probe[1].site = "codex_oauth"
    /\ Len(probe[1].jwt) = 3 /\ probe[1].jwt[2].enc = "padded"
    /\ AudOf(probe[1].jwt).some /\ AudOf(probe[1].jwt).v.t = "array"
    /\ Len(AudOf(probe[1].jwt).v.items) = 4
    /\ probe[1].client_id = SomeValue(<<"c1">>)


\* ------------------------------------- FallbackDriver: order of the calls

\* C30: in a complete or stream call the k-th invocation is of the k-th
\* driver of the list, so each driver is invoked at most once; a driver is
\* invoked only after every driver before it was invoked and failed with an
\* error that is not RateLimited or Overloaded; the call returns, after at
\* most Len(drivers) invocations, and invokes nothing after it returned.
C30_InOrderAtMostOnce ==
    /\ [](\A k \in 1..Len(invoked) :
            /\ invoked[k].index = k /\ k <= Len(drivers)
            /\ invoked[k].res = OwnResult(k)
            /\ \A j \in 1..(k - 1) : IsAbsorbed(invoked[j].res))
    /\ [][fb_pc = "done" => invoked' = invoked]_vars
    /\ <>(fb_pc = "done" /\ Len(invoked) <= Len(drivers))

\* A stream call over three drivers invoked all of them: two failed with
\* errors that are absorbed and the third returned Ok.
C30_Witness ==
    /\ fb_pc = "done" /\ fb_mode = "stream" /\ Len(drivers) = MaxDrivers
    /\ Len(invoked) = Len(drivers)
    /\ fb_result.ok /\ fb_result = invoked[Len(invoked)].res


\* ------------------------------------------- callbacks rejected early

\* The request lacks what the checks before the lookup ask for, and the
\* answer the first failing check gives.
RejectedEarly(h) ==
    \/ h.error
    \/ h.code = Absent \/ IsBlank(h.code)
    \/ h.state = Absent \/ IsBlank(h.state)
EarlyAnswer(h) ==
    IF h.error THEN "oauth_error"
    ELSE IF h.code = Absent \/ IsBlank(h.code) THEN "missing_code"
    ELSE "missing_state"

\* C31: a callback with an error parameter, or without a code, or without a
\* state, is answered by the first of these checks that fails and leaves the
\* pending store, the credential file and the two runtime variables as they
\* were; so a callback with an error and a pending state does not consume it.
C31_EarlyRejectFrame ==
    [][\A h \in DOMAIN handlers' \ DOMAIN handlers :
          (handlers'[h].kind = "callback" /\ RejectedEarly(handlers'[h])) =>
              /\ handlers'[h].pc = "done"
              /\ handlers'[h].resp = EarlyAnswer(handlers'[h])
              /\ PENDING_PKCE' = PENDING_PKCE
              /\ auth_file' = auth_file
              /\ env_access_token' = env_access_token
              /\ env_account_id' = env_account_id]_vars

\* A callback with an error and a pending state was rejected, and a later
\* callback redeemed that state.
C31_Witness ==
    \E h, g \in DOMAIN handlers :
        /\ h < g
        /\ handlers[h].kind = "callback" /\ handlers[h].error
        /\ handlers[h].resp = "oauth_error"
        /\ handlers[g].kind = "callback" /\ handlers[g].key = handlers[h].state


\* --------------------------------- FallbackDriver.stream: what the sink gets

\* The events the k-th invocation of the call sent.
OwnEvents(k) == DriverCall(drivers[k], request, fb_mode).ev
\* The positions of the ContentComplete events in a sequence of events.
Completes(ev) == {i \in DOMAIN ev : ev[i].ev = "ContentComplete"}
FallbackStreamReturned == fb_pc = "done" /\ fb_mode = "stream"

RECURSIVE DeltaText(_)
\* The text of the TextDelta events of a sequence, joined.
DeltaText(ev) ==
    IF ev = <<>> THEN <<>>
    ELSE (IF Head(ev).ev = "TextDelta" THEN Head(ev).text ELSE <<>>) \o DeltaText(Tail(ev))

\* C33: when FallbackDriver.stream returns Ok the sink holds the events of
\* the driver that succeeded and no others, and the text of its TextDelta
\* events is the text of the response returned.
C33_OnlyWinnersEvents ==
    (FallbackStreamReturned /\ fb_result.ok) =>
        /\ fb_tx = OwnEvents(Len(invoked))
        /\ DeltaText(fb_tx) = ResponseText(fb_result.resp)


\* ----------------------------------- Gemini stream: tool calls and events

RECURSIVE ToolEvents(_, _)
\* The (id, name) pairs of the events of one kind, in the order sent.
ToolEvents(ev, kind) ==
    IF ev = <<>> THEN <<>>
    ELSE (IF Head(ev).ev = kind THEN <<ToolCall(Head(ev).id, Head(ev).name)>> ELSE <<>>)
         \o ToolEvents(Tail(ev), kind)

\* C34: when a Gemini stream call returns Ok, the tool calls of the response
\* are, one for one and in order, the ToolUseStart events and the ToolUseEnd
\* events that were sent, with the same id and name.
C34_GeminiToolCallsMatchEvents ==
    (adapter = "gemini" /\ StreamReturned /\ result.ok) =>
        /\ ToolEvents(tx, "ToolUseStart") = result.resp.tool_calls
        /\ ToolEvents(tx, "ToolUseEnd") = result.resp.tool_calls


\* ------------------------------------------ Codex: tool calls per call id

\* The positions of the tool calls of a response that carry one call id.
CallsWithId(calls, id) == {k \in DOMAIN calls : calls[k].id = id}

\* C35: when a Codex call returns Ok the response has at most one tool call
\* per call id, whatever the backend sent, and every call id a ToolUseEnd
\* was sent for is among its tool calls.
C35_CodexOneCallPerId ==
    (adapter = "codex" /\ pc = "done" /\ result.ok) =>
        /\ \A k \in DOMAIN result.resp.tool_calls :
              Cardinality(CallsWithId(result.resp.tool_calls, result.resp.tool_calls[k].id)) = 1
        /\ \A i \in EventsAt("ToolUseEnd") :
              CallsWithId(result.resp.tool_calls, tx[i].id) # {}


\* ------------------------------------------------- Codex: SSE framing

\* Most lines of one response body.
MaxLines == 5

\* A line of the body, after the split on '\n' and the removal of a final
\* '\r' (codex.rs 562-567): empty, a comment, `event:` with a name, `data:`
\* with a payload, or any other line.
SseLine(kind, v) == [kind |-> kind, v |-> v]
SseLines ==
    {SseLine("blank", ""), SseLine("comment", ""), SseLine("other", "")}
    \cup {SseLine("event", e) : e \in {"e1", "e2"}}
    \cup {SseLine("data", d) : d \in {"d1", "d2"}}

\* current_event, current_data (codex.rs 545-546; the payloads joined by
\* '\n' are kept as their sequence), the lines read and the events framed:
\* name, payload and the position of the blank line that ended the event.
SseState(current_event, current_data, lines, framed) ==
    [current_event |-> current_event, current_data |-> current_data,
     lines |-> lines, framed |-> framed]
Framed(name, data, at) == [name |-> name, data |-> data, at |-> at]

\* One line of the body (codex.rs 562-763): a blank line takes
\* current_event and, if there was one, takes and clears current_data.
SseOnLine(st, line) ==
    LET read == Append(st.lines, line)
    IN CASE line.kind = "blank" ->
              IF st.current_event.some
              THEN SseState(NoText, <<>>, read,
                            Append(st.framed, Framed(st.current_event.v, st.current_data,
                                                     Len(read))))
              ELSE SseState(NoText, st.current_data, read, st.framed)
         [] line.kind = "event" -> SseState(SomeText(line.v), st.current_data, read, st.framed)
         [] line.kind = "data" ->
              SseState(st.current_event, Append(st.current_data, line.v), read, st.framed)
         [] OTHER -> [st EXCEPT !.lines = read]

SseInit ==
    /\ probe = <<SseState(NoText, <<>>, <<>>, <<>>)>>
    /\ DriversIdle
    /\ PkceIdle /\ ListenerIdle /\ RefreshIdle /\ ConvertIdle /\ AuthContextIdle
    /\ SessionIdle

\* The body gives its next line.
SseRead(line) ==
    /\ Len(probe[1].lines) < MaxLines
    /\ probe' = <<SseOnLine(probe[1], line)>>
    /\ UNCHANGED notPb

SseNext == \E line \in SseLines : SseRead(line)

SpecSse == SseInit /\ [][SseNext]_vars

\* The block a blank line at position `at` ends: the lines after the blank
\* line before it.
BlockStart(lines, at) ==
    LET blanks == {i \in 1..(at - 1) : lines[i].kind = "blank"}
    IN IF blanks = {} THEN 1 ELSE (CHOOSE i \in blanks : \A j \in blanks : j <= i) + 1
RECURSIVE PayloadsOf(_, _, _)
\* The payloads of the data lines at the positions from..to.
PayloadsOf(lines, from, to) ==
    IF from > to THEN <<>>
    ELSE (IF lines[from].kind = "data" THEN <<lines[from].v>> ELSE <<>>)
         \o PayloadsOf(lines, from + 1, to)
\* The positions of the event: lines of the block that ends at `at`.
NamesIn(lines, at) == {i \in BlockStart(lines, at)..(at - 1) : lines[i].kind = "event"}

\* C36: every block that has an event: line is framed at its blank line, and
\* an event framed at a blank line carries the last name of its block and
\* exactly the payloads of the data lines of that block.
C36_SseFraming ==
    LET st == probe[1]
    IN /\ \A at \in DOMAIN st.lines :
             (st.lines[at].kind = "blank" /\ NamesIn(st.lines, at) # {}) =>
                 \E f \in DOMAIN st.framed : st.framed[f].at = at
       /\ \A f \in DOMAIN st.framed :
             LET at == st.framed[f].at
             IN /\ st.lines[at].kind = "blank"
                /\ NamesIn(st.lines, at) # {}
                /\ st.framed[f].name =
                      st.lines[CHOOSE i \in NamesIn(st.lines, at) :
                                  \A j \in NamesIn(st.lines, at) : j <= i].v
                /\ st.framed[f].data = PayloadsOf(st.lines, BlockStart(st.lines, at), at - 1)


\* ------------------------------- logout while a status check is in flight

\* A status check suspended in a refresh request: the record it loaded; and
\* whether logout has returned since the last login.
InFlight(held, logged_out) == [held |-> held, logged_out |-> logged_out]

\* The status check on record a sends a refresh request, the proactive one
\* (codex_oauth.rs 1208-1211) or the one of ensure_access_token_for_auth
\* (1212): it is suspended there (.await) with the record in its frame.
Suspends(a, t) ==
    \E left \in StatusTail(a, a, 0, NoAuth, ClearedEnv, t) : left.inv.grants >= 1

LogoutRaceInit ==
    /\ auth_file \in {NoAuth} \cup {SomeAuth(a) : a \in SessionAuths}
    /\ \E e \in {ClearedEnv, Env(SomeText(<<"at_plain">>), SomeText(<<"acct_X">>))} :
          env_access_token = e.access_token /\ env_account_id = e.account_id
    /\ probe = <<InFlight(NoAuth, FALSE)>>
    /\ cli_auth = NoAuth /\ session = <<>>
    /\ driver = <<>> /\ auth_calls = <<>>
    /\ DriversIdle
    /\ PkceIdle /\ ListenerIdle /\ RefreshIdle /\ ConvertIdle
notRace == <<fbVars, adVars, pkVars, lsVars, rfVars, cvVars, driver, auth_calls,
             cli_auth, session>>

\* codex_oauth_status up to its first request to the token endpoint
\* (codex_oauth.rs 1152-1211): the file is read and the handler is suspended.
StatusBegin ==
    /\ ~probe[1].held.some
    /\ auth_file.some /\ Suspends(auth_file.v, num_seconds(now))
    /\ probe' = <<[probe[1] EXCEPT !.held = auth_file]>>
    /\ UNCHANGED <<auth_file, env_access_token, env_account_id>>
    /\ UNCHANGED notRace

\* The suspended status check is resumed and runs to its end (codex_oauth.rs
\* 1208-1251) on the file and the variables as they are now.
StatusEnd ==
    /\ probe[1].held.some
    /\ \E left \in StatusTail(probe[1].held.v, probe[1].held.v, 0, auth_file,
                              Env(env_access_token, env_account_id), num_seconds(now)) :
          /\ left.inv.grants >= 1
          /\ auth_file' = left.file
          /\ env_access_token' = left.env.access_token
          /\ env_account_id' = left.env.account_id
    /\ probe' = <<[probe[1] EXCEPT !.held = NoAuth]>>
    /\ UNCHANGED notRace

\* codex_oauth_logout (codex_oauth.rs 1254-1263); it has no suspension point.
LogoutReturns ==
    /\ ~probe[1].logged_out
    /\ auth_file' = NoAuth
    /\ env_access_token' = ClearedEnv.access_token
    /\ env_account_id' = ClearedEnv.account_id
    /\ probe' = <<[probe[1] EXCEPT !.logged_out = TRUE]>>
    /\ UNCHANGED notRace

LogoutRaceNext == StatusBegin \/ StatusEnd \/ LogoutReturns

SpecLogoutRace == LogoutRaceInit /\ [][LogoutRaceNext]_vars

\* C37: once logout has returned, and with no login, paste or import after
\* it, the credential file stays absent and the two variables stay unset,
\* also when a status check that began before the logout completes.
C37_LogoutIsFinal ==
    probe[1].logged_out =>
        /\ auth_file = NoAuth
        /\ env_access_token = NoText /\ env_account_id = NoText


\* ----------------------------------- concurrent start-logins: the listener

\* The listener tasks that are running: spawned, not aborted, not finished.
AliveTasks == {h \in DOMAIN tasks : tasks[h].status = "running"}

\* C38: however the calls of ensure_loopback_callback_listener interleave,
\* at most one listener task is alive and it is the one the slot records
\* (a task overwritten in the slot while still alive would be alive and
\* not the recorded one).
C38_OneListenerAlive ==
    /\ Cardinality(AliveTasks) <= 1
    /\ \A h \in AliveTasks :
          LOOPBACK_CALLBACK_TASK.some /\ LOOPBACK_CALLBACK_TASK.handle = h


\* ------------------------------------- pending PKCE logins: stale entries

\* The entry is older than the TTL, by the measure cleanup_stale_pkce uses.
Stale(pending, t) == num_seconds(t - pending.created_at) > MAX_PENDING_AGE_SECS

\* C39: no callback or paste-code request takes a pending entry that is
\* older than the TTL on to the token exchange, whether or not a cleanup
\* pass ran since the entry went stale.
C39_StaleNeverRedeemed ==
    [][\A h \in DOMAIN handlers' :
          (/\ handlers'[h].kind \in {"callback", "paste"}
           /\ handlers'[h].pc = "exchange"
           /\ (h \in DOMAIN handlers => handlers[h].pc # "exchange"))
          => ~Stale(handlers'[h].pending, now')]_vars


\* ------------------------------- the persisted credential: save, then apply

\* C40: an invocation of callback, paste-code, CLI import or status that
\* ends holding a credential it did not write to the file leaves the two
\* variables as they were, or cleared; it does not set them from that
\* credential.
C40_ApplyOnlyAfterSave ==
    [][(/\ session' # <<>>
        /\ session'[1].op \in Handlers25
        /\ session'[1].auth.some
        /\ ~session'[1].saved)
       => \/ RuntimeEnv' = RuntimeEnv
          \/ RuntimeEnv' = ClearedEnv]_vars

====
